---------------------------- MODULE Spec2Model ----------------------------
(***************************************************************************)
(* Model of the audio policy configuration loader                          *)
(* (services/audiopolicy/common/managerdefinitions/src/Serializer.cpp).    *)
(*                                                                         *)
(* A string is a sequence of characters.  Only three classes of character  *)
(* are ever told apart by the code (isspace, the ',' delimiter of strtok,  *)
(* everything else), so a character of the model is " ", "," or a word: a  *)
(* maximal run of other characters written as one TLA+ string.  Two        *)
(* strings of the program are equal iff their models are equal.            *)
(*                                                                         *)
(* An XML element is a record [name, attrs, children] (plus text for the   *)
(* elements whose text content is read).                                   *)
(***************************************************************************)
EXTENDS Integers, Sequences, FiniteSets, TLC

VARIABLES
    doc,                      \* the parsed xmlDoc (input), or "null"
    property,                 \* persist.sys.phh.disable_a2dp_offload (input)
    heapByte,                 \* the byte in front of the strndup'ed sources buffer
    forceDisableA2dpOffload,  \* static bool, line 40
    fixedEarpieceChannels,    \* static bool, line 402
    index,                    \* static uint32_t index of AudioGainTraits::deserialize
    pc,                       \* position of the load
    cursor,                   \* number of module elements already handed to deserialize
    module,                   \* the HwModule under construction
    modules,                  \* ModuleTraits::Collection modules (local of deserialize)
    config,                   \* the AudioPolicyConfig passed by the caller
    status,                   \* the status_t returned by deserializeAudioPolicyFile
    returned                  \* what the earlier calls in this process returned

vars == <<doc, property, heapByte, forceDisableA2dpOffload, fixedEarpieceChannels,
          index, pc, cursor, module, modules, config, status, returned>>

-----------------------------------------------------------------------------
(* Bounds of the documents *)

MaxPorts == 2
MaxRoutes == 2
MaxModules == 2
MaxLoads == 2

-----------------------------------------------------------------------------
(* Strings *)

Str(w) == <<w>>
Empty == <<>>
NO_ERROR == "NO_ERROR"
BAD_VALUE == "BAD_VALUE"

isspace(c) == c = " "

\* strlen(devTag) and friends work on sequences directly.

\* strtok(buf, del): the non-empty maximal runs of characters other than del.
\* Each token is [start, text]: start is the position of its first character.
RECURSIVE strtokFrom(_, _, _, _)
strtokFrom(s, del, i, tok) ==
    LET done == IF tok = Empty THEN <<>>
                ELSE <<[start |-> i - Len(tok), text |-> tok]>>
    IN IF i > Len(s) THEN done
       ELSE IF s[i] = del THEN done \o strtokFrom(s, del, i + 1, Empty)
       ELSE strtokFrom(s, del, i + 1, Append(tok, s[i]))

strtok(s, del) == strtokFrom(s, del, 1, Empty)

\* The first loop of trim: while (isspace(s[l - 1])) --l.  When l reaches 0 the
\* read s[-1] is in front of the token: before[Len(before)] and so on.
RECURSIVE trimEnd(_, _, _)
trimEnd(s, before, l) ==
    LET c == IF l >= 1 THEN s[l]
             ELSE IF Len(before) + l >= 1 THEN before[Len(before) + l]
             ELSE "x"
    IN IF isspace(c) THEN trimEnd(s, before, l - 1) ELSE l

\* The second loop of trim: while (*s && isspace(*s)) ++s, --l; returns <<start, l>>.
RECURSIVE trimStart(_, _, _)
trimStart(s, start, l) ==
    IF start <= Len(s) /\ isspace(s[start])
    THEN trimStart(s, start + 1, l - 1)
    ELSE <<start, l>>

\* strndup(s + start - 1, l): l is converted to size_t, so a negative l copies the
\* whole rest of the string.
strndup(s, start, l) ==
    LET rest == SubSeq(s, start, Len(s))
    IN IF l < 0 \/ l >= Len(rest) THEN rest ELSE SubSeq(rest, 1, l)

\* trim without its second loop: leading whitespace stays.
trimTrailingOnly(s, before) ==
    IF Len(s) > 0 THEN strndup(s, 1, trimEnd(s, before, Len(s))) ELSE s

trim(s, before) ==
    LET l == Len(s)
    IN IF l > 0
       THEN LET l1 == trimEnd(s, before, l)
                r  == trimStart(s, 1, l1)
            IN strndup(s, r[1], r[2])
       ELSE strndup(s, 1, l)

-----------------------------------------------------------------------------
(* XML *)

Node(name, attrs, children) == [name |-> name, attrs |-> attrs, children |-> children]
NoAttrs == [x \in {} |-> Empty]
TextNode(name, text) == [name |-> name, attrs |-> NoAttrs, children |-> <<>>, text |-> text]

getXmlAttribute(cur, attribute) ==
    IF attribute \in DOMAIN cur.attrs THEN cur.attrs[attribute] ELSE Empty

\* The elements deserializeCollection hands to Trait::deserialize, in order, as
\* long as no insertion fails (the two loops of lines 306-331).
TaggedFrom(tag, siblings, i) ==
    SelectSeq(SubSeq(siblings, i, Len(siblings)), LAMBDA n : n.name = tag)

\* visitFrom with every child handled on its own: a bare element is followed by
\* the rest of the walk instead of by its siblings of the same name only.
RECURSIVE visitUniformFrom(_, _, _, _)
visitUniformFrom(tag, collectionTag, children, j) ==
    IF j > Len(children) THEN <<>>
    ELSE (IF children[j].name = collectionTag
          THEN TaggedFrom(tag, children[j].children, 1)
          ELSE IF children[j].name = tag THEN <<children[j]>> ELSE <<>>)
             \o visitUniformFrom(tag, collectionTag, children, j + 1)

RECURSIVE visitFrom(_, _, _, _)
visitFrom(tag, collectionTag, children, j) ==
    IF j > Len(children) THEN <<>>
    ELSE LET cur == children[j]
         IN IF cur.name = collectionTag
            THEN TaggedFrom(tag, cur.children, 1)
                     \o visitFrom(tag, collectionTag, children, j + 1)
            ELSE IF cur.name = tag
                 THEN TaggedFrom(tag, children, j)      \* then return NO_ERROR
                 ELSE visitFrom(tag, collectionTag, children, j + 1)

CollectionTag(tag) ==
    CASE tag = "gain" -> "gains"
      [] tag = "profile" -> "profiles"
      [] tag = "mixPort" -> "mixPorts"
      [] tag = "devicePort" -> "devicePorts"
      [] tag = "route" -> "routes"
      [] tag = "module" -> "modules"
      [] tag = "format" -> "formats"

visit(tag, cur) == visitFrom(tag, CollectionTag(tag), cur.children, 1)

-----------------------------------------------------------------------------
(* Converters (TypeConverter.h, media/convert.h) *)

gDynamicFormat == "AUDIO_FORMAT_DEFAULT"

KnownFormats == {"AUDIO_FORMAT_DEFAULT", "AUDIO_FORMAT_PCM_16_BIT",
                 "AUDIO_FORMAT_PCM_8_BIT", "AUDIO_FORMAT_AC3"}

FormatRank(f) ==
    CASE f = "AUDIO_FORMAT_DEFAULT" -> 0
      [] f = "AUDIO_FORMAT_PCM_16_BIT" -> 1
      [] f = "AUDIO_FORMAT_PCM_8_BIT" -> 2
      [] f = "AUDIO_FORMAT_AC3" -> 3

formatFromString(literal, default) ==
    IF Len(literal) = 1 /\ literal[1] \in KnownFormats THEN literal[1] ELSE default

KnownChannels == {"AUDIO_CHANNEL_IN_MONO", "AUDIO_CHANNEL_IN_STEREO",
                  "AUDIO_CHANNEL_OUT_MONO", "AUDIO_CHANNEL_OUT_STEREO"}

channelMasksFromString(literal) ==
    LET toks == strtok(literal, ",")
    IN {toks[i].text[1] : i \in {k \in 1..Len(toks) :
            Len(toks[k].text) = 1 /\ toks[k].text[1] \in KnownChannels}}

KnownRates == {"8000", "44100", "48000", "96000"}

samplingRatesFromString(literal) ==
    LET toks == strtok(literal, ",")
    IN {toks[i].text[1] : i \in {k \in 1..Len(toks) :
            Len(toks[k].text) = 1 /\ toks[k].text[1] \in KnownRates}}

KnownGainModes == {"AUDIO_GAIN_MODE_JOINT", "AUDIO_GAIN_MODE_CHANNELS",
                   "AUDIO_GAIN_MODE_RAMP"}

\* GainModeConverter::maskFromString: the set of the known mode names; 0 is {}.
maskFromString(literal) ==
    IF Len(literal) = 1 /\ literal[1] \in KnownGainModes THEN {literal[1]} ELSE {}

Numerals == {"0", "1", "2", "100"}
Booleans == {"true", "false"}

\* convertTo(literal, out): TRUE iff the literal converts; the value is the literal.
convertTo(literal, literals) == Len(literal) = 1 /\ literal[1] \in literals

\* An optional attribute read through convertTo keeps its default on failure.
converted(cur, attribute, literals, default) ==
    LET literal == getXmlAttribute(cur, attribute)
    IN IF literal # Empty /\ convertTo(literal, literals) THEN literal[1] ELSE default

OutputDevices == {"AUDIO_DEVICE_OUT_SPEAKER", "AUDIO_DEVICE_OUT_EARPIECE",
                  "AUDIO_DEVICE_OUT_BLUETOOTH_SCO_HEADSET",
                  "AUDIO_DEVICE_OUT_TELEPHONY_TX",
                  "AUDIO_DEVICE_OUT_BLUETOOTH_A2DP",
                  "AUDIO_DEVICE_OUT_BLUETOOTH_A2DP_HEADPHONES",
                  "AUDIO_DEVICE_OUT_BLUETOOTH_A2DP_SPEAKER"}
InputDevices == {"AUDIO_DEVICE_IN_BUILTIN_MIC", "AUDIO_DEVICE_IN_BLUETOOTH_SCO_HEADSET",
                 "AUDIO_DEVICE_IN_TELEPHONY_RX"}
AUDIO_DEVICE_NONE == "AUDIO_DEVICE_NONE"

\* deviceFromString(typeName, type): [ok, type].
deviceFromString(typeName) ==
    IF Len(typeName) = 1 /\ typeName[1] \in OutputDevices \cup InputDevices
    THEN [ok |-> TRUE, type |-> typeName[1]]
    ELSE [ok |-> FALSE, type |-> AUDIO_DEVICE_NONE]

audio_is_input_device(type) == type \in InputDevices
audio_is_output_devices(type) == type \in OutputDevices

AUDIO_PORT_ROLE_SOURCE == "source"
AUDIO_PORT_ROLE_SINK == "sink"
AUDIO_ROUTE_MIX == "mix"
AUDIO_ROUTE_MUX == "mux"

-----------------------------------------------------------------------------
(* Profiles *)

AudioProfile(format, channels, rates) ==
    [format |-> format, channels |-> channels, rates |-> rates,
     isDynamicFormat |-> FALSE, isDynamicChannels |-> FALSE, isDynamicRate |-> FALSE]

createFullDynamic(format) ==
    [format |-> format, channels |-> {}, rates |-> {},
     isDynamicFormat |-> TRUE, isDynamicChannels |-> TRUE, isDynamicRate |-> TRUE]

\* sortAudioProfiles: a stable sort by format.
RECURSIVE insertProfile(_, _)
insertProfile(sorted, p) ==
    IF sorted = <<>> THEN <<p>>
    ELSE IF FormatRank(p.format) < FormatRank(Head(sorted).format)
         THEN <<p>> \o sorted
         ELSE <<Head(sorted)>> \o insertProfile(Tail(sorted), p)

RECURSIVE sortAudioProfiles(_)
sortAudioProfiles(profiles) ==
    IF profiles = <<>> THEN <<>>
    ELSE insertProfile(sortAudioProfiles(SubSeq(profiles, 1, Len(profiles) - 1)),
                       profiles[Len(profiles)])

\* The static state the deserializers read and write, threaded through the calls:
\* env = [index, fixedEarpieceChannels, heapByte, module].
AudioProfileTraits_deserialize(cur, isOutput, env) ==
    LET samplingRates == getXmlAttribute(cur, "samplingRates")
        format == getXmlAttribute(cur, "format")
        channels == getXmlAttribute(cur, "channelMasks")
        parsedMask == channelMasksFromString(channels)
        fix == parsedMask = {"AUDIO_CHANNEL_IN_MONO"} /\ isOutput
        channelsMask == IF fix THEN channelMasksFromString(Str("AUDIO_CHANNEL_OUT_MONO"))
                        ELSE parsedMask
        profile == AudioProfile(formatFromString(format, gDynamicFormat), channelsMask,
                                samplingRatesFromString(samplingRates))
    IN [ok |-> TRUE,
        element |-> [profile EXCEPT !.isDynamicFormat = (profile.format = gDynamicFormat),
                                    !.isDynamicChannels = (profile.channels = {}),
                                    !.isDynamicRate = (profile.rates = {})],
        env |-> IF fix THEN [env EXCEPT !.fixedEarpieceChannels = TRUE] ELSE env]

-----------------------------------------------------------------------------
(* Gains *)

\* A uint32_t is <<high, low>>, its two halves of 16 bits: its value is
\* high * 2^16 + low.
HalfWord == 2 ^ 16

uint32(n) == <<n \div HalfWord, n % HalfWord>>

\* The counter left as it is.
notIncremented(x) == x

\* x + 1 in uint32_t arithmetic.
increment(x) ==
    IF x[2] + 1 < HalfWord THEN <<x[1], x[2] + 1>>
    ELSE IF x[1] + 1 < HalfWord THEN <<x[1] + 1, 0>>
    ELSE <<0, 0>>

\* x < y for two uint32_t.
less(x, y) == x[1] < y[1] \/ (x[1] = y[1] /\ x[2] < y[2])

AudioGainTraits_deserialize(cur, env) ==
    LET mode == getXmlAttribute(cur, "mode")
        channelsLiteral == getXmlAttribute(cur, "channel_mask")
        gain == [index |-> env.index,
                 mode |-> IF mode # Empty THEN maskFromString(mode) ELSE {},
                 channelMask |-> IF channelsLiteral # Empty
                                 THEN channelMasksFromString(channelsLiteral) ELSE {},
                 minValueMB |-> converted(cur, "minValueMB", Numerals, "0"),
                 maxValueMB |-> converted(cur, "maxValueMB", Numerals, "0"),
                 defaultValueMB |-> converted(cur, "defaultValueMB", Numerals, "0"),
                 stepValueMB |-> converted(cur, "stepValueMB", Numerals, "0"),
                 minRampMs |-> converted(cur, "minRampMs", Numerals, "0"),
                 maxRampMs |-> converted(cur, "maxRampMs", Numerals, "0"),
                 useForVolume |-> converted(cur, "useForVolume", Booleans, "false")]
    IN [ok |-> gain.mode # {},
        element |-> gain,
        env |-> [env EXCEPT !.index = increment(env.index)]]

\* formatsFromString(literal, " "): the known formats among the tokens, in order.
formatsFromString(literal) ==
    LET toks == strtok(literal, " ")
        known == SelectSeq(toks, LAMBDA t : Len(t.text) = 1 /\ t.text[1] \in KnownFormats)
    IN [i \in 1..Len(known) |-> known[i].text[1]]

-----------------------------------------------------------------------------
(* Collections *)

HasTagName(collection, tagName) ==
    \E i \in 1..Len(collection) : collection[i].tagName = tagName

\* collection->add(element): the index of the new element, or -1 when the
\* collection refuses it.  Port collections are keyed by tag name, the surround
\* format table by format; the others take every element.
collectionAdd(tag, element, collection) ==
    IF tag \in {"mixPort", "devicePort"} /\ HasTagName(collection, element.tagName)
    THEN -1
    ELSE Len(collection)

\* std::map::insert: pair.second is FALSE when the key is already there.
mapInsert(element, collection) ==
    ~ \E i \in 1..Len(collection) : collection[i].format = element.format

addElementToCollection(tag, element, collection) ==
    IF tag = "format"
    THEN IF mapInsert(element, collection)
         THEN [status |-> NO_ERROR, collection |-> Append(collection, element)]
         ELSE [status |-> BAD_VALUE, collection |-> collection]
    ELSE IF collectionAdd(tag, element, collection) >= 0
         THEN [status |-> NO_ERROR, collection |-> Append(collection, element)]
         ELSE [status |-> BAD_VALUE, collection |-> collection]

\* Status::fromStatusT(BAD_VALUE): the element is not ok.
failed(env) == [ok |-> FALSE, element |-> <<>>, env |-> env]

-----------------------------------------------------------------------------
(* Surround formats *)

SurroundSoundFormatTraits_deserialize(cur, env) ==
    LET formatLiteral == getXmlAttribute(cur, "name")
        format == formatFromString(formatLiteral, "AUDIO_FORMAT_DEFAULT")
        subformatsLiteral == getXmlAttribute(cur, "subformats")
        subformats == formatsFromString(subformatsLiteral)
        unique == \A i, j \in 1..Len(subformats) : subformats[i] = subformats[j] => i = j
    IN IF formatLiteral = Empty THEN failed(env)
       ELSE IF format = "AUDIO_FORMAT_DEFAULT"
            THEN failed(env)
       ELSE IF subformatsLiteral = Empty
            THEN [ok |-> TRUE, element |-> [format |-> format, subformats |-> {}],
                  env |-> env]
       ELSE IF ~ unique THEN failed(env)
       ELSE [ok |-> TRUE,
             element |-> [format |-> format,
                          subformats |-> {subformats[i] : i \in 1..Len(subformats)}],
             env |-> env]

-----------------------------------------------------------------------------
(* deserializeCollection for the traits without children of their own *)

Leaf_deserialize(tag, cur, serializingContext, env) ==
    CASE tag = "gain" -> AudioGainTraits_deserialize(cur, env)
      [] tag = "profile" -> AudioProfileTraits_deserialize(cur, serializingContext, env)
      [] tag = "format" -> SurroundSoundFormatTraits_deserialize(cur, env)

\* Lines 313-327 over the visited elements: an element that fails to parse is
\* ignored, an element the collection refuses ends the walk with its status.
RECURSIVE deserializeLeavesFrom(_, _, _, _, _, _)

\* leafDeserialized with an element that fails to parse ending the walk.
leafDeserializedOrAbort(tag, nodes, i, collection, serializingContext, element) ==
    LET added == addElementToCollection(tag, element.element, collection)
    IN IF ~ element.ok
       THEN [status |-> BAD_VALUE, collection |-> collection, env |-> element.env]
       ELSE IF added.status # NO_ERROR
            THEN [status |-> added.status, collection |-> collection,
                  env |-> element.env]
       ELSE deserializeLeavesFrom(tag, nodes, i + 1, added.collection,
                                  serializingContext, element.env)

leafDeserialized(tag, nodes, i, collection, serializingContext, element) ==
    LET added == addElementToCollection(tag, element.element, collection)
    IN IF ~ element.ok
       THEN deserializeLeavesFrom(tag, nodes, i + 1, collection,
                                  serializingContext, element.env)
       ELSE IF added.status # NO_ERROR
            THEN [status |-> added.status, collection |-> collection,
                  env |-> element.env]
       ELSE deserializeLeavesFrom(tag, nodes, i + 1, added.collection,
                                  serializingContext, element.env)

deserializeLeavesFrom(tag, nodes, i, collection, serializingContext, env) ==
    IF i > Len(nodes)
    THEN [status |-> NO_ERROR, collection |-> collection, env |-> env]
    ELSE leafDeserialized(tag, nodes, i, collection, serializingContext,
                          Leaf_deserialize(tag, nodes[i], serializingContext, env))

deserializeChildCollection(tag, cur, collection, serializingContext, env) ==
    deserializeLeavesFrom(tag, visit(tag, cur), 1, collection, serializingContext, env)

-----------------------------------------------------------------------------
(* Ports *)

\* profilesOrDynamic without the default profile.
profilesAsDeclared(profiles) == profiles

profilesOrDynamic(profiles) ==
    IF profiles = <<>> THEN <<createFullDynamic(gDynamicFormat)>> ELSE profiles

\* Lines 447-488, p and g being the results of the two deserializeCollection calls.
mixPortParsed(child, name, portRole, flags, p, g) ==
    IF p.status # NO_ERROR THEN failed(p.env)
    ELSE IF g.status # NO_ERROR THEN failed(g.env)
    ELSE [ok |-> TRUE,
          element |->
              [kind |-> "mix", tagName |-> name, role |-> portRole,
               profiles |-> sortAudioProfiles(profilesOrDynamic(p.collection)),
               flags |-> IF flags # Empty
                         THEN <<IF portRole = AUDIO_PORT_ROLE_SOURCE
                                THEN "OutputFlag" ELSE "InputFlag", flags>>
                         ELSE <<>>,
               maxOpenCount |-> converted(child, "maxOpenCount", Numerals, "1"),
               maxActiveCount |-> converted(child, "maxActiveCount", Numerals, "1"),
               gains |-> g.collection,
               routes |-> {}],
          env |-> g.env]

mixPortProfiles(child, name, portRole, flags, p) ==
    mixPortParsed(child, name, portRole, flags, p,
                  deserializeChildCollection("gain", child, <<>>, FALSE, p.env))

MixPortTraits_deserialize(child, env) ==
    LET name == getXmlAttribute(child, "name")
        role == getXmlAttribute(child, "role")
        portRole == IF role = Str("source") THEN AUDIO_PORT_ROLE_SOURCE
                    ELSE AUDIO_PORT_ROLE_SINK
    IN IF name = Empty THEN failed(env)
       ELSE IF role = Empty THEN failed(env)
       ELSE mixPortProfiles(child, name, portRole, getXmlAttribute(child, "flags"),
                deserializeChildCollection("profile", child, <<>>, FALSE, env))

DeviceDescriptor(type, name, address, encodedFormats) ==
    [kind |-> "device", tagName |-> name, type |-> type, address |-> address,
     encodedFormats |-> encodedFormats, profiles |-> <<>>, gains |-> <<>>, routes |-> {}]

\* Lines 529-555, p and g being the results of the two deserializeCollection calls.
devicePortParsed(deviceDesc, p, g) ==
    IF p.status # NO_ERROR THEN failed(p.env)
    ELSE IF g.status # NO_ERROR THEN failed(g.env)
    ELSE [ok |-> TRUE,
          element |-> [deviceDesc EXCEPT
                          !.profiles = sortAudioProfiles(profilesOrDynamic(p.collection)),
                          !.gains = g.collection],
          env |-> g.env]

devicePortProfiles(cur, deviceDesc, p) ==
    devicePortParsed(deviceDesc, p,
                     deserializeChildCollection("gain", cur, <<>>, FALSE, p.env))

devicePortTyped(cur, name, type, env) ==
    LET encodedFormatsLiteral == getXmlAttribute(cur, "encodedFormats")
        encodedFormats == IF encodedFormatsLiteral # Empty
                          THEN formatsFromString(encodedFormatsLiteral) ELSE <<>>
        address == getXmlAttribute(cur, "address")
    IN devicePortProfiles(cur, DeviceDescriptor(type, name, address, encodedFormats),
           deserializeChildCollection("profile", cur, <<>>,
                                      audio_is_output_devices(type), env))

\* DevicePortTraits_deserialize without the comparison of the type with the role.
DevicePortTraits_deserializeAnyRole(cur, env) ==
    LET name == getXmlAttribute(cur, "tagName")
        typeName == getXmlAttribute(cur, "type")
        role == getXmlAttribute(cur, "role")
        dev == deviceFromString(typeName)
    IN IF name = Empty THEN failed(env)
       ELSE IF typeName = Empty THEN failed(env)
       ELSE IF role = Empty THEN failed(env)
       ELSE IF ~ dev.ok THEN failed(env)
       ELSE devicePortTyped(cur, name, dev.type, env)

DevicePortTraits_deserialize(cur, env) ==
    LET name == getXmlAttribute(cur, "tagName")
        typeName == getXmlAttribute(cur, "type")
        role == getXmlAttribute(cur, "role")
        portRole == IF role = Str("source") THEN AUDIO_PORT_ROLE_SOURCE
                    ELSE AUDIO_PORT_ROLE_SINK
        dev == deviceFromString(typeName)
        type == dev.type
    IN IF name = Empty THEN failed(env)
       ELSE IF typeName = Empty THEN failed(env)
       ELSE IF role = Empty THEN failed(env)
       ELSE IF \/ ~ dev.ok
               \/ (~ audio_is_input_device(type) /\ portRole = AUDIO_PORT_ROLE_SOURCE)
               \/ (~ audio_is_output_devices(type) /\ portRole = AUDIO_PORT_ROLE_SINK)
            THEN failed(env)
       ELSE devicePortTyped(cur, name, type, env)

-----------------------------------------------------------------------------
(* HwModule and routes *)

\* A port of a module is referred to by <<kind, tagName>>; NULL is no port.
NULL == <<>>

HwModule(name, versionMajor, versionMinor) ==
    [name |-> name, halVersion |-> <<versionMajor, versionMinor>>,
     mixPorts |-> <<>>, devicePorts |-> <<>>, routes |-> <<>>, nextRoute |-> 1]

\* HwModule::findPortByTagName: the ports registered by setProfiles come before
\* those registered by setDeclaredDevices.
findPortByTagName(ctx, tagName) ==
    IF HasTagName(ctx.mixPorts, tagName) THEN <<"mix", tagName>>
    ELSE IF HasTagName(ctx.devicePorts, tagName) THEN <<"device", tagName>>
    ELSE NULL

linked(ports, tagName, id) ==
    [i \in 1..Len(ports) |->
        IF ports[i].tagName = tagName
        THEN [ports[i] EXCEPT !.routes = @ \cup {id}] ELSE ports[i]]

\* port->addRoute(route) on the port <<kind, tagName>> of the module.
addRoute(ctx, port, id) ==
    IF port[1] = "mix"
    THEN [ctx EXCEPT !.mixPorts = linked(@, port[2], id)]
    ELSE [ctx EXCEPT !.devicePorts = linked(@, port[2], id)]

RECURSIVE addRoutes(_, _, _)
addRoutes(ctx, ports, id) ==
    IF ports = <<>> THEN ctx
    ELSE addRoutes(addRoute(ctx, Head(ports), id), Tail(ports), id)

\* The character in front of a token of the sources buffer: the out-of-bounds
\* byte for a token at the start of the buffer, else a ',' or the '\0' strtok wrote.
beforeToken(tok, heap) == IF tok.start = 1 THEN <<heap>> ELSE <<",">>

\* One turn of the while loop of lines 605-619.
resolveSource(ctx, tok, heap) ==
    LET source == findPortByTagName(ctx, tok.text)
    IN IF source = NULL
       THEN findPortByTagName(ctx, trim(tok.text, beforeToken(tok, heap)))
       ELSE source

RECURSIVE resolveSources(_, _, _)
resolveSources(ctx, toks, heap) ==
    IF toks = <<>> THEN <<>>
    ELSE LET source == resolveSource(ctx, Head(toks), heap)
         IN (IF source # NULL THEN <<source>> ELSE <<>>)
                \o resolveSources(ctx, Tail(toks), heap)

\* Lines 621-627.
routeLinked(env, routeType, sink, sources) ==
    LET ctx == env.module
        id == ctx.nextRoute
    IN [ok |-> TRUE,
        element |-> [id |-> id, type |-> routeType, sink |-> sink, sources |-> sources],
        env |-> [env EXCEPT !.module =
                    [addRoutes(addRoute(ctx, sink, id), sources, id)
                        EXCEPT !.nextRoute = @ + 1]]]

\* RouteTraits::deserialize returning BAD_VALUE for a route none of whose
\* sources resolves.
RouteTraits_deserializeResolved(cur, env) ==
    LET ctx == env.module
        type == getXmlAttribute(cur, "type")
        routeType == IF type = Str("mix") THEN AUDIO_ROUTE_MIX ELSE AUDIO_ROUTE_MUX
        sinkAttr == getXmlAttribute(cur, "sink")
        sink == findPortByTagName(ctx, sinkAttr)
        sourcesAttr == getXmlAttribute(cur, "sources")
        sources == resolveSources(ctx, strtok(sourcesAttr, ","), env.heapByte)
    IN IF type = Empty THEN failed(env)
       ELSE IF sinkAttr = Empty THEN failed(env)
       ELSE IF sink = NULL THEN failed(env)
       ELSE IF sourcesAttr = Empty THEN failed(env)
       ELSE IF sources = <<>> THEN failed(env)
       ELSE routeLinked(env, routeType, sink, sources)

RouteTraits_deserialize(cur, env) ==
    LET ctx == env.module
        type == getXmlAttribute(cur, "type")
        routeType == IF type = Str("mix") THEN AUDIO_ROUTE_MIX ELSE AUDIO_ROUTE_MUX
        sinkAttr == getXmlAttribute(cur, "sink")
        sink == findPortByTagName(ctx, sinkAttr)
        sourcesAttr == getXmlAttribute(cur, "sources")
    IN IF type = Empty THEN failed(env)
       ELSE IF sinkAttr = Empty THEN failed(env)
       ELSE IF sink = NULL THEN failed(env)
       ELSE IF sourcesAttr = Empty THEN failed(env)
       ELSE routeLinked(env, routeType, sink,
                        resolveSources(ctx, strtok(sourcesAttr, ","), env.heapByte))

-----------------------------------------------------------------------------
(* deserializeCollection for mix ports, device ports and routes *)

Trait_deserialize(tag, cur, serializingContext, env) ==
    CASE tag = "mixPort" -> MixPortTraits_deserialize(cur, env)
      [] tag = "devicePort" -> DevicePortTraits_deserialize(cur, env)
      [] tag = "route" -> RouteTraits_deserialize(cur, env)

\* Lines 313-327 over the visited elements: an element that fails to parse is
\* ignored, an element the collection refuses ends the walk with its status.
RECURSIVE deserializeFrom(_, _, _, _, _, _)

\* deserialized with an element that fails to parse ending the walk.
deserializedOrAbort(tag, nodes, i, collection, serializingContext, element) ==
    LET added == addElementToCollection(tag, element.element, collection)
    IN IF ~ element.ok
       THEN [status |-> BAD_VALUE, collection |-> collection, env |-> element.env]
       ELSE IF added.status # NO_ERROR
            THEN [status |-> added.status, collection |-> collection,
                  env |-> element.env]
       ELSE deserializeFrom(tag, nodes, i + 1, added.collection,
                            serializingContext, element.env)

deserialized(tag, nodes, i, collection, serializingContext, element) ==
    LET added == addElementToCollection(tag, element.element, collection)
    IN IF ~ element.ok
       THEN deserializeFrom(tag, nodes, i + 1, collection,
                            serializingContext, element.env)
       ELSE IF added.status # NO_ERROR
            THEN [status |-> added.status, collection |-> collection,
                  env |-> element.env]
       ELSE deserializeFrom(tag, nodes, i + 1, added.collection,
                            serializingContext, element.env)

deserializeFrom(tag, nodes, i, collection, serializingContext, env) ==
    IF i > Len(nodes)
    THEN [status |-> NO_ERROR, collection |-> collection, env |-> env]
    ELSE deserialized(tag, nodes, i, collection, serializingContext,
                      Trait_deserialize(tag, nodes[i], serializingContext, env))

deserializeCollection(tag, cur, collection, serializingContext, env) ==
    deserializeFrom(tag, visit(tag, cur), 1, collection, serializingContext, env)

-----------------------------------------------------------------------------
(* Quirks *)

A2dpOutput == <<"a2dp", " ", "output">>
BtA2dpOut == <<"BT", " ", "A2DP", " ", "Out">>
BtA2dpHeadphones == <<"BT", " ", "A2DP", " ", "Headphones">>
BtA2dpSpeaker == <<"BT", " ", "A2DP", " ", "Speaker">>
BtScoHeadset == <<"BT", " ", "SCO", " ", "Headset">>
BtScoHeadsetMic == <<"BT", " ", "SCO", " ", "Headset", " ", "Mic">>
TelephonyTx == <<"Telephony", " ", "Tx">>
TelephonyRx == <<"Telephony", " ", "Rx">>
PrimaryOutput == <<"primary", " ", "output">>
DeepBuffer == <<"deep_buffer">>
CompressedOffload == <<"compressed_offload">>
Earpiece == <<"Earpiece">>

a2dpOuts == <<BtA2dpOut, BtA2dpHeadphones, BtA2dpSpeaker>>

\* std::find_if and Vector::erase: found is the set of the positions the predicate
\* holds at; the element at the first of them, if any, is erased.
eraseFirst(collection, found) ==
    IF found # {}
    THEN LET k == CHOOSE i \in found : \A j \in found : i <= j
         IN SubSeq(collection, 1, k - 1) \o SubSeq(collection, k + 1, Len(collection))
    ELSE collection

\* scanRoutes without the test of the type of the route.
RECURSIVE scanRoutesAnyType(_, _, _)
scanRoutesAnyType(routes, i, found) ==
    IF i > Len(routes) THEN found
    ELSE LET route == routes[i]
         IN IF route.sink[2] = TelephonyTx
            THEN scanRoutesAnyType(routes, i + 1, [found EXCEPT !.foundTelephony = TRUE])
            ELSE IF route.sink[2] = BtScoHeadset
                 THEN [found EXCEPT !.foundScoHeadsetRoute = TRUE]
            ELSE IF \E k \in 1..Len(route.sources) : route.sources[k][2] = BtScoHeadsetMic
                 THEN scanRoutesAnyType(routes, i + 1, [found EXCEPT !.foundBtScoInput = TRUE])
            ELSE scanRoutesAnyType(routes, i + 1, found)

\* The loop of lines 658-679: [foundTelephony, foundBtScoInput, foundScoHeadsetRoute].
RECURSIVE scanRoutes(_, _, _)
scanRoutes(routes, i, found) ==
    IF i > Len(routes) THEN found
    ELSE LET route == routes[i]
         IN IF route.type # AUDIO_ROUTE_MIX THEN scanRoutes(routes, i + 1, found)
            ELSE IF route.sink[2] = TelephonyTx
                 THEN scanRoutes(routes, i + 1, [found EXCEPT !.foundTelephony = TRUE])
            ELSE IF route.sink[2] = BtScoHeadset
                 THEN [found EXCEPT !.foundScoHeadsetRoute = TRUE]
            ELSE IF \E k \in 1..Len(route.sources) : route.sources[k][2] = BtScoHeadsetMic
                 THEN scanRoutes(routes, i + 1, [found EXCEPT !.foundBtScoInput = TRUE])
            ELSE scanRoutes(routes, i + 1, found)

\* The source names of the added route without the last one.
scoSourceNamesWithoutRx == <<PrimaryOutput, DeepBuffer, CompressedOffload>>

scoSourceNames == <<PrimaryOutput, DeepBuffer, CompressedOffload, TelephonyRx>>

\* fixupQualcommBtScoRoute with the added route in the place of the last route
\* of the collection.
fixupQualcommBtScoRouteOverLast(ctx) ==
    LET foundBtScoHeadsetDevice == HasTagName(ctx.devicePorts, BtScoHeadset)
        found == scanRoutes(ctx.routes, 1,
                            [foundTelephony |-> FALSE, foundBtScoInput |-> FALSE,
                             foundScoHeadsetRoute |-> FALSE])
        sink == findPortByTagName(ctx, BtScoHeadset)
        named == [i \in 1..Len(scoSourceNames) |->
                     findPortByTagName(ctx, scoSourceNames[i])]
        sources == SelectSeq(named, LAMBDA s : s # NULL)
        newRoute == [id |-> ctx.nextRoute, type |-> AUDIO_ROUTE_MIX, sink |-> sink,
                     sources |-> sources]
        linkedCtx == addRoute(addRoutes(ctx, sources, newRoute.id), sink, newRoute.id)
    IN IF ~ foundBtScoHeadsetDevice THEN ctx
       ELSE IF found.foundScoHeadsetRoute THEN ctx
       ELSE IF ~ found.foundTelephony \/ ~ found.foundBtScoInput THEN ctx
       ELSE [linkedCtx EXCEPT !.routes = Append(SubSeq(@, 1, Len(@) - 1), newRoute),
                              !.nextRoute = @ + 1]

\* fixupQualcommBtScoRoute(routes, devicePorts, ctx): the module after the call.
fixupQualcommBtScoRoute(ctx) ==
    LET foundBtScoHeadsetDevice == HasTagName(ctx.devicePorts, BtScoHeadset)
        found == scanRoutes(ctx.routes, 1,
                            [foundTelephony |-> FALSE, foundBtScoInput |-> FALSE,
                             foundScoHeadsetRoute |-> FALSE])
        sink == findPortByTagName(ctx, BtScoHeadset)
        named == [i \in 1..Len(scoSourceNames) |->
                     findPortByTagName(ctx, scoSourceNames[i])]
        sources == SelectSeq(named, LAMBDA s : s # NULL)
        newRoute == [id |-> ctx.nextRoute, type |-> AUDIO_ROUTE_MIX, sink |-> sink,
                     sources |-> sources]
        linkedCtx == addRoute(addRoutes(ctx, sources, newRoute.id), sink, newRoute.id)
    IN IF ~ foundBtScoHeadsetDevice THEN ctx
       ELSE IF found.foundScoHeadsetRoute THEN ctx
       ELSE IF ~ found.foundTelephony \/ ~ found.foundBtScoInput THEN ctx
       ELSE [linkedCtx EXCEPT !.routes = Append(@, newRoute), !.nextRoute = @ + 1]

\* Lines 763-767: the mix port added to the a2dp module.
a2dpMixPort ==
    [kind |-> "mix", tagName |-> A2dpOutput, role |-> AUDIO_PORT_ROLE_SOURCE,
     profiles |-> <<createFullDynamic(gDynamicFormat)>>, flags |-> <<>>,
     maxOpenCount |-> "1", maxActiveCount |-> "1", gains |-> <<>>, routes |-> {}]

\* The device port before it is given the profile and the address.
a2dpDevicePortBare(type, name) == DeviceDescriptor(type, name, Empty, <<>>)

\* Lines 788-802 (and 810-823, 831-844): one device port added to the a2dp module.
a2dpDevicePort(type, name) ==
    [DeviceDescriptor(type, name, Empty, <<>>) EXCEPT
        !.profiles = <<AudioProfile("AUDIO_FORMAT_PCM_16_BIT",
                                    {"AUDIO_CHANNEL_OUT_STEREO"},
                                    {"44100", "48000", "96000"})>>,
        !.address = Str("lhdc_a2dp")]

\* devicePorts.add(devicePortOut), the result ignored.
addDevicePort(devicePorts, port) ==
    IF collectionAdd("devicePort", port, devicePorts) >= 0
    THEN Append(devicePorts, port) ELSE devicePorts

\* Lines 781-846.
a2dpAddDevicePorts(devicePorts) ==
    addDevicePort(
        addDevicePort(
            addDevicePort(devicePorts,
                a2dpDevicePort("AUDIO_DEVICE_OUT_BLUETOOTH_A2DP", BtA2dpOut)),
            a2dpDevicePort("AUDIO_DEVICE_OUT_BLUETOOTH_A2DP_HEADPHONES", BtA2dpHeadphones)),
        a2dpDevicePort("AUDIO_DEVICE_OUT_BLUETOOTH_A2DP_SPEAKER", BtA2dpSpeaker))

\* primaryEraseDevicePorts with the loop ending one name early.
RECURSIVE primaryEraseDevicePortsButLast(_, _)
primaryEraseDevicePortsButLast(devicePorts, i) ==
    IF i >= Len(a2dpOuts) THEN devicePorts
    ELSE primaryEraseDevicePortsButLast(
             eraseFirst(devicePorts,
                        {j \in 1..Len(devicePorts) : devicePorts[j].tagName = a2dpOuts[i]}),
             i + 1)

\* Lines 848-857.
RECURSIVE primaryEraseDevicePorts(_, _)
primaryEraseDevicePorts(devicePorts, i) ==
    IF i > Len(a2dpOuts) THEN devicePorts
    ELSE primaryEraseDevicePorts(
             eraseFirst(devicePorts,
                        {j \in 1..Len(devicePorts) : devicePorts[j].tagName = a2dpOuts[i]}),
             i + 1)

\* Lines 869-884.
RECURSIVE primaryEraseRoutes(_, _)
primaryEraseRoutes(routes, i) ==
    IF i > Len(a2dpOuts) THEN routes
    ELSE primaryEraseRoutes(
             eraseFirst(routes, {j \in 1..Len(routes) :
                                     /\ routes[j].type = AUDIO_ROUTE_MIX
                                     /\ routes[j].sink[2] = a2dpOuts[i]}),
             i + 1)

\* Lines 888-901 (and 904-916, 919-931): one route added to the a2dp module.
a2dpAddRoute(ctx, sinkName) ==
    LET sink == findPortByTagName(ctx, sinkName)
        source == findPortByTagName(ctx, A2dpOutput)
        newRoute == [id |-> ctx.nextRoute, type |-> AUDIO_ROUTE_MIX, sink |-> sink,
                     sources |-> <<source>>]
        linkedCtx == addRoute(addRoute(ctx, sink, newRoute.id), source, newRoute.id)
    IN [linkedCtx EXCEPT !.routes = Append(@, newRoute), !.nextRoute = @ + 1]

\* a2dpAddRoutes without the route into "BT A2DP Speaker".
a2dpAddRoutesButLast(ctx) ==
    a2dpAddRoute(a2dpAddRoute(ctx, BtA2dpOut), BtA2dpHeadphones)

a2dpAddRoutes(ctx) ==
    a2dpAddRoute(a2dpAddRoute(a2dpAddRoute(ctx, BtA2dpOut), BtA2dpHeadphones),
                 BtA2dpSpeaker)

-----------------------------------------------------------------------------
(* AudioPolicyConfig *)

NoDevice == [element |-> 0, module |-> Empty, tagName |-> Empty]

DefaultSurroundFormats ==
    <<[format |-> "AUDIO_FORMAT_AC3", subformats |-> {}]>>

\* The AudioPolicyConfig the caller constructs and passes.
FreshConfig ==
    [hwModules |-> <<>>, availableDevices |-> <<>>, defaultOutputDevice |-> NoDevice,
     speakerDrcEnabled |-> "false", callScreenModeSupported |-> "false",
     engineLibraryNameSuffix |-> Str("default"), surroundFormats |-> <<>>]

\* AudioPolicyConfig::addDevice: the device joins the available devices once.
addDevice(cfg, device) ==
    IF \E i \in 1..Len(cfg.availableDevices) : cfg.availableDevices[i] = device
    THEN cfg
    ELSE [cfg EXCEPT !.availableDevices = Append(@, device)]

\* DeviceVector::getDeviceFromTagName on the declared devices of module number
\* element: a reference to the device, or NoDevice.
getDeviceFromTagName(ctx, element, tagName) ==
    IF HasTagName(ctx.devicePorts, tagName)
    THEN [element |-> element, module |-> ctx.name, tagName |-> tagName]
    ELSE NoDevice

hasText(node) == "text" \in DOMAIN node

\* The loop of lines 943-963 over the children of one attachedDevices element.
RECURSIVE attachDevices(_, _, _, _, _)
attachDevices(items, i, ctx, element, cfg) ==
    IF i > Len(items) THEN cfg
    ELSE LET child == items[i]
             device == getDeviceFromTagName(ctx, element, child.text)
         IN IF child.name = "item" /\ hasText(child) /\ device # NoDevice
            THEN attachDevices(items, i + 1, ctx, element, addDevice(cfg, device))
            ELSE attachDevices(items, i + 1, ctx, element, cfg)

\* moduleChildren with every default output device that resolves taken.
RECURSIVE moduleChildrenLastWins(_, _, _, _, _)
moduleChildrenLastWins(children, i, ctx, element, cfg) ==
    IF i > Len(children) THEN cfg
    ELSE LET node == children[i]
             attached == IF node.name = "attachedDevices"
                         THEN attachDevices(node.children, 1, ctx, element, cfg)
                         ELSE cfg
             device == getDeviceFromTagName(ctx, element, node.text)
             after == IF /\ node.name = "defaultOutputDevice"
                         /\ hasText(node)
                         /\ device # NoDevice
                      THEN [attached EXCEPT !.defaultOutputDevice = device]
                      ELSE attached
         IN moduleChildrenLastWins(children, i + 1, ctx, element, after)

\* The loop of lines 939-981 over the children of the module element.
RECURSIVE moduleChildren(_, _, _, _, _)
moduleChildren(children, i, ctx, element, cfg) ==
    IF i > Len(children) THEN cfg
    ELSE LET node == children[i]
             attached == IF node.name = "attachedDevices"
                         THEN attachDevices(node.children, 1, ctx, element, cfg)
                         ELSE cfg
             device == getDeviceFromTagName(ctx, element, node.text)
             after == IF /\ node.name = "defaultOutputDevice"
                         /\ hasText(node)
                         /\ device # NoDevice
                         /\ attached.defaultOutputDevice = NoDevice
                      THEN [attached EXCEPT !.defaultOutputDevice = device]
                      ELSE attached
         IN moduleChildren(children, i + 1, ctx, element, after)

FirstNamed(children, name) ==
    LET hits == SelectSeq(children, LAMBDA n : n.name = name)
    IN IF hits = <<>> THEN <<>> ELSE <<Head(hits)>>

GlobalConfigTraits_deserialize(root, cfg) ==
    LET found == FirstNamed(root.children, "globalConfiguration")
    IN IF found = <<>> THEN cfg
       ELSE LET cur == found[1]
                engineLibrarySuffix == getXmlAttribute(cur, "engine_library")
            IN [cfg EXCEPT
                   !.speakerDrcEnabled =
                       converted(cur, "speaker_drc_enabled", Booleans, @),
                   !.callScreenModeSupported =
                       converted(cur, "call_screen_mode_supported", Booleans, @),
                   !.engineLibraryNameSuffix =
                       IF engineLibrarySuffix # Empty THEN engineLibrarySuffix ELSE @]

SurroundSoundTraits_deserialize(root, cfg, env) ==
    LET defaulted == [cfg EXCEPT !.surroundFormats = DefaultSurroundFormats]
        found == FirstNamed(root.children, "surroundSound")
    IN IF found = <<>> THEN defaulted
       ELSE LET r == deserializeChildCollection("format", found[1], <<>>, FALSE, env)
            IN IF r.status = NO_ERROR
               THEN [defaulted EXCEPT !.surroundFormats = r.collection]
               ELSE defaulted

-----------------------------------------------------------------------------
(* The load *)

rootName == "audioPolicyConfiguration"
gMajor == 1
gMinor == 0
mVersion == Str(ToString(gMajor) \o "." \o ToString(gMinor))

NoModule == [name |-> Empty]

\* The values the byte in front of a heap buffer is told apart by.
HeapBytes == {" ", "x"}

statics == [index |-> index, fixedEarpieceChannels |-> fixedEarpieceChannels,
        heapByte |-> heapByte, module |-> module]

\* The module elements ModuleTraits::deserialize is called on, in order.
moduleElements == visit("module", doc.root)
curModule == moduleElements[cursor + 1]

\* HAL versions sscanf("%u.%u") reads from the version literal.
halVersion(versionLiteral) ==
    IF versionLiteral = Str("2.0") THEN <<2, 0>>
    ELSE IF versionLiteral = Str("3") THEN <<3, 0>>
    ELSE <<0, 0>>

\* documentAccepted without the comparison of the version with mVersion.
documentAcceptedAnyVersion(d) ==
    /\ d.ok
    /\ d.root.name = rootName
    /\ getXmlAttribute(d.root, "version") # Empty

\* The root and version checks of PolicySerializer::deserialize.
documentAccepted(d) ==
    /\ d.ok
    /\ d.root.name = rootName
    /\ getXmlAttribute(d.root, "version") # Empty
    /\ getXmlAttribute(d.root, "version") = mVersion

\* deserializeAudioPolicyFile up to the module collection (lines 1116-1120, 1064-1098).
Load ==
    /\ pc = "start"
    /\ forceDisableA2dpOffload' = property
    /\ IF documentAccepted(doc)
       THEN /\ pc' = "module"
            /\ UNCHANGED status
       ELSE /\ pc' = "done"
            /\ status' = BAD_VALUE
    /\ UNCHANGED <<doc, returned, property, heapByte, fixedEarpieceChannels, index, cursor,
                   module, modules, config>>

\* ModuleTraits::deserialize fails: deserializeCollection ignores the element.
ignoreModule(e) ==
    /\ pc' = "module"
    /\ cursor' = cursor + 1
    /\ module' = NoModule
    /\ index' = e.index
    /\ fixedEarpieceChannels' = e.fixedEarpieceChannels

\* The status check after a deserializeCollection call of ModuleTraits::deserialize
\* (lines 747-749, 773-775, 864-866): r is the result of the call, field the local
\* collection it filled.
collected(r, field, next) ==
    IF r.status # NO_ERROR
    THEN ignoreModule(r.env)
    ELSE /\ module' = [r.env.module EXCEPT ![field] = r.collection]
         /\ index' = r.env.index
         /\ fixedEarpieceChannels' = r.env.fixedEarpieceChannels
         /\ pc' = next
         /\ UNCHANGED cursor

\* Lines 722-743.
ModuleBegin ==
    /\ pc = "module"
    /\ cursor < Len(moduleElements)
    /\ LET name == getXmlAttribute(curModule, "name")
           version == halVersion(getXmlAttribute(curModule, "halVersion"))
       IN IF name = Empty
          THEN ignoreModule(statics)
          ELSE /\ module' = HwModule(name, version[1], version[2])
               /\ pc' = "mixPorts"
               /\ UNCHANGED <<cursor, index, fixedEarpieceChannels>>
    /\ UNCHANGED <<doc, returned, property, heapByte, forceDisableA2dpOffload, modules, config,
                   status>>

\* Lines 745-749.
ModuleMixPorts ==
    /\ pc = "mixPorts"
    /\ collected(deserializeCollection("mixPort", curModule, <<>>, FALSE, statics),
                 "mixPorts", "a2dpMixPort")
    /\ UNCHANGED <<doc, returned, property, heapByte, forceDisableA2dpOffload, modules, config,
                   status>>

isA2dpModule == module.name = Str("a2dp")
isPrimaryModule == module.name = Str("primary")

\* The flag left as it is, whatever the mix ports.
a2dpFlagKept(flag, isA2dp, mixPorts) == flag

\* Lines 750-759: the flag after the search for an "a2dp output" mix port.
a2dpFlagAfterMixPorts(flag, isA2dp, mixPorts) ==
    IF flag /\ isA2dp /\ HasTagName(mixPorts, A2dpOutput) THEN FALSE ELSE flag

\* Lines 750-769.
ModuleA2dpMixPort ==
    /\ pc = "a2dpMixPort"
    /\ LET flag == a2dpFlagAfterMixPorts(forceDisableA2dpOffload, isA2dpModule,
                                         module.mixPorts)
       IN /\ forceDisableA2dpOffload' = flag
          /\ module' = IF flag /\ isA2dpModule
                       THEN [module EXCEPT !.mixPorts = Append(@, a2dpMixPort)]
                       ELSE module
    /\ pc' = "devicePorts"
    /\ UNCHANGED <<doc, returned, property, heapByte, fixedEarpieceChannels, index, cursor,
                   modules, config, status>>

\* Lines 771-775.
ModuleDevicePorts ==
    /\ pc = "devicePorts"
    /\ collected(deserializeCollection("devicePort", curModule, <<>>, FALSE, statics),
                 "devicePorts", "a2dpDevicePorts")
    /\ UNCHANGED <<doc, returned, property, heapByte, forceDisableA2dpOffload, modules, config,
                   status>>

\* a2dpDevicePorts without the erasure in the primary module.
a2dpDevicePortsAddedOnly(flag, isA2dp, isPrimary, devicePorts) ==
    IF flag /\ isA2dp THEN a2dpAddDevicePorts(devicePorts) ELSE devicePorts

\* Lines 776-859: the device ports handed to setDeclaredDevices.
a2dpDevicePorts(flag, isA2dp, isPrimary, devicePorts) ==
    IF flag
    THEN IF isA2dp THEN a2dpAddDevicePorts(devicePorts)
         ELSE IF isPrimary THEN primaryEraseDevicePorts(devicePorts, 1)
         ELSE devicePorts
    ELSE devicePorts

\* Lines 776-860.
ModuleA2dpDevicePorts ==
    /\ pc = "a2dpDevicePorts"
    /\ module' = [module EXCEPT !.devicePorts =
                     a2dpDevicePorts(forceDisableA2dpOffload, isA2dpModule,
                                     isPrimaryModule, @)]
    /\ pc' = "routes"
    /\ UNCHANGED <<doc, returned, property, heapByte, forceDisableA2dpOffload,
                   fixedEarpieceChannels, index, cursor, modules, config, status>>

\* Lines 862-866.
ModuleRoutes ==
    /\ pc = "routes"
    /\ collected(deserializeCollection("route", curModule, <<>>, FALSE, statics),
                 "routes", "a2dpRoutes")
    /\ UNCHANGED <<doc, returned, property, heapByte, forceDisableA2dpOffload, modules, config,
                   status>>

\* Lines 867-933: the module after the routes of the quirk are erased or added.
a2dpRoutes(flag, isA2dp, isPrimary, ctx) ==
    IF flag
    THEN IF isPrimary THEN [ctx EXCEPT !.routes = primaryEraseRoutes(@, 1)]
         ELSE IF isA2dp THEN a2dpAddRoutes(ctx)
         ELSE ctx
    ELSE ctx

ModuleA2dpRoutes ==
    /\ pc = "a2dpRoutes"
    /\ module' = a2dpRoutes(forceDisableA2dpOffload, isA2dpModule, isPrimaryModule,
                            module)
    /\ pc' = "fixup"
    /\ UNCHANGED <<doc, returned, property, heapByte, forceDisableA2dpOffload,
                   fixedEarpieceChannels, index, cursor, modules, config, status>>

\* Lines 934-937.
ModuleFixup ==
    /\ pc = "fixup"
    /\ module' = fixupQualcommBtScoRoute(module)
    /\ pc' = "children"
    /\ UNCHANGED <<doc, returned, property, heapByte, forceDisableA2dpOffload,
                   fixedEarpieceChannels, index, cursor, modules, config, status>>

\* Lines 983-989.
earpieceAttached(fixed, ctx, element, cfg) ==
    LET device == getDeviceFromTagName(ctx, element, Earpiece)
    IN IF fixed /\ device # NoDevice THEN addDevice(cfg, device) ELSE cfg

\* Lines 939-991, and the insertion of the module into the collection (316-322).
ModuleChildren ==
    /\ pc = "children"
    /\ config' = earpieceAttached(fixedEarpieceChannels, module, cursor + 1,
                     moduleChildren(curModule.children, 1, module, cursor + 1, config))
    /\ fixedEarpieceChannels' = FALSE
    /\ modules' = addElementToCollection("module", module, modules).collection
    /\ module' = NoModule
    /\ cursor' = cursor + 1
    /\ pc' = "module"
    /\ UNCHANGED <<doc, returned, property, heapByte, forceDisableA2dpOffload, index, status>>

\* Lines 1099-1111.
Finish ==
    /\ pc = "module"
    /\ cursor = Len(moduleElements)
    /\ config' = SurroundSoundTraits_deserialize(doc.root,
                     GlobalConfigTraits_deserialize(doc.root,
                         [config EXCEPT !.hwModules = modules]), statics)
    /\ status' = "OK"
    /\ pc' = "done"
    /\ UNCHANGED <<doc, returned, property, heapByte, forceDisableA2dpOffload,
                   fixedEarpieceChannels, index, cursor, module, modules>>

\* The caller keeps what the call returned and calls deserializeAudioPolicyFile
\* again in the same process, on the same file and with a newly constructed
\* AudioPolicyConfig: the statics keep their values.
Reload ==
    /\ pc = "done"
    /\ Len(returned) + 1 < MaxLoads
    /\ returned' = Append(returned, [status |-> status, config |-> config])
    /\ heapByte' \in HeapBytes
    /\ pc' = "start"
    /\ cursor' = 0
    /\ module' = NoModule
    /\ modules' = <<>>
    /\ config' = FreshConfig
    /\ status' = "none"
    /\ UNCHANGED <<doc, property, forceDisableA2dpOffload, fixedEarpieceChannels, index>>

Next ==
    \/ Load
    \/ ModuleBegin
    \/ ModuleMixPorts
    \/ ModuleA2dpMixPort
    \/ ModuleDevicePorts
    \/ ModuleA2dpDevicePorts
    \/ ModuleRoutes
    \/ ModuleA2dpRoutes
    \/ ModuleFixup
    \/ ModuleChildren
    \/ Finish
    \/ Reload

-----------------------------------------------------------------------------
(* Documents *)

container(tag, kids) == Node(tag, NoAttrs, kids)

mixPort(name, role) ==
    Node("mixPort", [name |-> name, role |-> role], <<>>)

devicePort(tagName, type, role) ==
    Node("devicePort", [tagName |-> tagName, type |-> type, role |-> role], <<>>)

route(type, sink, sources) ==
    Node("route", [type |-> type, sink |-> sink, sources |-> sources], <<>>)

moduleNode(name, children) == Node("module", [name |-> name], children)

\* A root element without a version attribute is document(root, Empty, children).
document(root, version, children) ==
    [ok |-> TRUE,
     root |-> Node(root, IF version = Empty THEN NoAttrs ELSE [version |-> version],
                   children)]

\* The ways a list of entity elements is laid out under its parent.
Shapes == {"wrapped", "bare", "bareThenWrapped", "wrappedThenBare", "split"}

arrange(tag, es, shape) ==
    IF es = <<>> THEN <<>>
    ELSE CASE shape = "wrapped" -> <<container(CollectionTag(tag), es)>>
           [] shape = "bare" -> es
           [] shape = "bareThenWrapped" ->
                  <<Head(es), container(CollectionTag(tag), Tail(es))>>
           [] shape = "wrappedThenBare" ->
                  <<container(CollectionTag(tag), <<Head(es)>>)>> \o Tail(es)
           [] shape = "split" ->
                  <<container(CollectionTag(tag), <<Head(es)>>),
                    container(CollectionTag(tag), Tail(es))>>

\* The sequences of at most n elements of S.
SeqsUpTo(S, n) == UNION {[1..k -> S] : k \in 0..n}

TypeOK ==
    /\ pc \in {"start", "module", "mixPorts", "a2dpMixPort", "devicePorts",
               "a2dpDevicePorts", "routes", "a2dpRoutes", "fixup", "children", "done"}
    /\ status \in {"none", "OK", BAD_VALUE}
    /\ forceDisableA2dpOffload \in BOOLEAN
    /\ fixedEarpieceChannels \in BOOLEAN
    /\ index \in (0..(HalfWord - 1)) \X (0..(HalfWord - 1))
    /\ cursor \in 0..Len(moduleElements)
    /\ Len(returned) < MaxLoads

\* The state deserializeAudioPolicyFile is entered in, for the given documents
\* and the given bytes in front of a heap buffer, in a process that has parsed
\* one of the given numbers of gain elements before.
InitAt(documents, bytes, indices) ==
    /\ doc \in documents
    /\ property \in BOOLEAN
    /\ heapByte \in bytes
    /\ forceDisableA2dpOffload = FALSE
    /\ fixedEarpieceChannels = FALSE
    /\ index \in indices
    /\ pc = "start"
    /\ cursor = 0
    /\ module = NoModule
    /\ modules = <<>>
    /\ config = FreshConfig
    /\ status = "none"
    /\ returned = <<>>

\* The first call of a process.
InitWith(documents, bytes) == InitAt(documents, bytes, {uint32(0)})

(* Documents over generic port names: one module whose mix ports, device ports
   or routes vary in content and layout, and roots and versions that vary. *)

NameA == Str("a")
NameB == Str("b")
NameD == Str("d")
NameZ == Str("zz")
Source == Str("source")
Sink == Str("sink")
Mix == Str("mix")
Mux == Str("mux")

MixPortElements == {mixPort(NameA, Source), mixPort(NameB, Source), mixPort(Empty, Source)}

DevicePortElements ==
    {devicePort(NameD, Str("AUDIO_DEVICE_OUT_SPEAKER"), Sink),
     devicePort(NameA, Str("AUDIO_DEVICE_OUT_EARPIECE"), Sink),
     devicePort(NameD, Str("AUDIO_DEVICE_IN_BUILTIN_MIC"), Sink)}

SourcesLiterals ==
    {<<"a">>, <<"a", ",", "b">>, <<" ", "a", " ", ",", "zz", ",", "b", " ">>,
     <<" ", ",", "zz">>, Empty}

RouteElements ==
    {route(Mix, NameD, s) : s \in SourcesLiterals}
        \cup {route(Mux, NameD, <<"b", ",", ",", "a", " ">>),
              route(Mix, NameZ, <<"a">>), route(Empty, NameD, <<"a">>),
              route(Mix, NameA, <<"zz", ",", " ", "a">>)}

fixedMixPorts == <<mixPort(NameA, Source), mixPort(NameB, Source)>>
fixedDevicePorts == <<devicePort(NameD, Str("AUDIO_DEVICE_OUT_SPEAKER"), Sink)>>
fixedRoutes == <<route(Mix, NameD, <<"a", ",", "b">>)>>

moduleOf(mixes, mixShape, devices, deviceShape, routes, routeShape) ==
    moduleNode(Str("m"),
               arrange("mixPort", mixes, mixShape)
                   \o arrange("devicePort", devices, deviceShape)
                   \o arrange("route", routes, routeShape))

PortModules ==
    {moduleOf(ms, sh, fixedDevicePorts, "wrapped", fixedRoutes, "wrapped") :
         ms \in SeqsUpTo(MixPortElements, MaxPorts), sh \in Shapes}
    \cup {moduleOf(fixedMixPorts, "wrapped", ds, sh, fixedRoutes, "wrapped") :
         ds \in SeqsUpTo(DevicePortElements, MaxPorts), sh \in Shapes}

RouteModules ==
    {moduleOf(fixedMixPorts, "wrapped", fixedDevicePorts, "wrapped", rs, sh) :
         rs \in SeqsUpTo(RouteElements, MaxRoutes), sh \in Shapes}

RootDocs ==
    {document(r, v, <<container("modules", <<m>>)>>) :
         r \in {rootName, "audioPolicy"},
         v \in {Empty, mVersion, Str("1.1"), <<"1.0", " ">>},
         m \in {moduleOf(fixedMixPorts, "wrapped", fixedDevicePorts, "wrapped",
                         fixedRoutes, "wrapped")}}
    \cup {[ok |-> FALSE, root |-> Node(rootName, [version |-> mVersion], <<>>)]}

Docs ==
    {document(rootName, mVersion, <<container("modules", <<m>>)>>) :
         m \in PortModules \cup RouteModules}
    \cup RootDocs

Init == InitWith(Docs, HeapBytes)
Spec == Init /\ [][Next]_vars

(* Documents for the A2DP quirk: up to MaxModules modules, each a "primary" or
   an "a2dp" module, in every order. *)

outDevice(tagName, type) == devicePort(tagName, Str(type), Sink)
inDevice(tagName, type) == devicePort(tagName, Str(type), Source)

Speaker == Str("Speaker")

a2dpOutDevices ==
    <<outDevice(BtA2dpOut, "AUDIO_DEVICE_OUT_BLUETOOTH_A2DP"),
      outDevice(BtA2dpHeadphones, "AUDIO_DEVICE_OUT_BLUETOOTH_A2DP_HEADPHONES"),
      outDevice(BtA2dpSpeaker, "AUDIO_DEVICE_OUT_BLUETOOTH_A2DP_SPEAKER")>>

primaryModule(mixes, devices, routes) ==
    moduleNode(Str("primary"),
               <<container("mixPorts", <<mixPort(PrimaryOutput, Source)>> \o mixes),
                 container("devicePorts",
                           <<outDevice(Speaker, "AUDIO_DEVICE_OUT_SPEAKER")>> \o devices),
                 container("routes",
                           <<route(Mix, Speaker, PrimaryOutput)>> \o routes)>>)

PrimaryModules ==
    {\* the A2DP devices are device ports of the primary module, with their routes
     primaryModule(<<>>, a2dpOutDevices,
                   <<route(Mix, BtA2dpOut, PrimaryOutput),
                     route(Mux, BtA2dpHeadphones, PrimaryOutput),
                     route(Mix, BtA2dpSpeaker, PrimaryOutput)>>),
     \* a mix port has the name of an A2DP device and a mix route sinks into it
     primaryModule(<<mixPort(BtA2dpOut, Sink)>>, <<>>,
                   <<route(Mix, BtA2dpOut, PrimaryOutput)>>),
     \* the same with a mux route, and with the device port as well
     primaryModule(<<mixPort(BtA2dpOut, Sink)>>, a2dpOutDevices,
                   <<route(Mux, BtA2dpOut, PrimaryOutput)>>),
     \* a mix port with the name of an A2DP device is a source
     primaryModule(<<mixPort(BtA2dpHeadphones, Source)>>, <<>>,
                   <<route(Mix, Speaker, PrimaryOutput \o <<",">> \o BtA2dpHeadphones)>>)}

a2dpModule(mixes, devices, routes) ==
    moduleNode(Str("a2dp"),
               <<container("mixPorts", mixes), container("devicePorts", devices),
                 container("routes", routes)>>)

A2dpModules ==
    {\* nothing declared
     a2dpModule(<<>>, <<>>, <<>>),
     \* the "a2dp output" mix port is declared, with the devices and a route
     a2dpModule(<<mixPort(A2dpOutput, Source)>>, a2dpOutDevices,
                <<route(Mix, BtA2dpOut, A2dpOutput)>>),
     \* a device port is declared under the name of an added one
     a2dpModule(<<>>, <<outDevice(BtA2dpOut, "AUDIO_DEVICE_OUT_BLUETOOTH_A2DP")>>, <<>>),
     \* a route between the added ports is declared
     a2dpModule(<<>>, <<>>, <<route(Mix, BtA2dpOut, A2dpOutput)>>),
     \* a mix port is declared under the name of an added device port
     a2dpModule(<<mixPort(BtA2dpSpeaker, Source)>>, <<>>, <<>>),
     \* ports and a route of other names are declared
     a2dpModule(<<mixPort(NameA, Source)>>,
                <<outDevice(Speaker, "AUDIO_DEVICE_OUT_SPEAKER")>>,
                <<route(Mix, Speaker, NameA \o <<",">> \o A2dpOutput)>>)}

A2dpDocs ==
    {document(rootName, mVersion, <<container("modules", ms)>>) :
         ms \in SeqsUpTo(PrimaryModules \cup A2dpModules, MaxModules) \ {<<>>}}

InitA2dp == InitWith(A2dpDocs, {"x"})
SpecA2dp == InitA2dp /\ [][Next]_vars

(* Documents for the BT SCO quirk: one module whose routes vary, with or without
   the "BT SCO Headset" device port and with some of the four source ports. *)

PrimaryInput == <<"primary", " ", "input">>

scoMixPorts ==
    {<<>>,
     <<mixPort(PrimaryOutput, Source)>>,
     <<mixPort(CompressedOffload, Source), mixPort(DeepBuffer, Source)>>,
     <<mixPort(PrimaryOutput, Source), mixPort(DeepBuffer, Source),
       mixPort(CompressedOffload, Source)>>}

scoDevicePorts ==
    {<<>>,
     <<outDevice(BtScoHeadset, "AUDIO_DEVICE_OUT_BLUETOOTH_SCO_HEADSET")>>,
     <<inDevice(TelephonyRx, "AUDIO_DEVICE_IN_TELEPHONY_RX"),
       outDevice(BtScoHeadset, "AUDIO_DEVICE_OUT_BLUETOOTH_SCO_HEADSET")>>}

ScoRouteElements ==
    {route(t, PrimaryInput, <<"Built-In", " ", "Mic", ",">> \o BtScoHeadsetMic) :
         t \in {Mix, Mux}}
        \cup {route(t, TelephonyTx, BtScoHeadsetMic) : t \in {Mix, Mux}}
        \cup {route(Mix, TelephonyTx, PrimaryOutput),
              route(Mix, BtScoHeadset, PrimaryOutput),
              route(Mux, BtScoHeadset, PrimaryOutput)}

scoModule(mixes, devices, routes) ==
    moduleNode(Str("primary"),
               <<container("mixPorts", <<mixPort(PrimaryInput, Sink)>> \o mixes),
                 container("devicePorts",
                           <<inDevice(BtScoHeadsetMic,
                                      "AUDIO_DEVICE_IN_BLUETOOTH_SCO_HEADSET"),
                             outDevice(TelephonyTx, "AUDIO_DEVICE_OUT_TELEPHONY_TX")>>
                               \o devices),
                 container("routes", routes)>>)

\* The two mix routes the fixup looks for, with a route into "BT SCO Headset"
\* before or after them.
ScoRouteTriples ==
    {<<route(Mix, PrimaryInput, BtScoHeadsetMic), route(Mix, TelephonyTx, PrimaryOutput),
       route(t, BtScoHeadset, PrimaryOutput)>> : t \in {Mix, Mux}}
        \cup {<<route(t, BtScoHeadset, PrimaryOutput),
                route(Mix, PrimaryInput, BtScoHeadsetMic),
                route(Mix, TelephonyTx, PrimaryOutput)>> : t \in {Mix, Mux}}

ScoDocs ==
    {document(rootName, mVersion, <<container("modules", <<scoModule(ms, ds, rs)>>)>>) :
         ms \in scoMixPorts, ds \in scoDevicePorts,
         rs \in SeqsUpTo(ScoRouteElements, MaxRoutes) \cup ScoRouteTriples}

InitSco == InitWith(ScoDocs, {"x"})
SpecSco == InitSco /\ [][Next]_vars

(* Documents with entities that fail to parse among entities that parse: a
   module without a name, ports and routes without a required attribute or
   with a device type that does not fit the role, gains without a mode. *)

MaxGains == 2

Joint == Str("AUDIO_GAIN_MODE_JOINT")
Channels == Str("AUDIO_GAIN_MODE_CHANNELS")
Bogus == Str("bogus")

gain(mode) == Node("gain", [mode |-> mode], <<>>)

profile(format, samplingRates, channelMasks) ==
    Node("profile", [format |-> format, samplingRates |-> samplingRates,
                     channelMasks |-> channelMasks], <<>>)

mixPortWith(name, role, children) ==
    Node("mixPort", [name |-> name, role |-> role], children)

devicePortWith(tagName, type, role, children) ==
    Node("devicePort", [tagName |-> tagName, type |-> type, role |-> role], children)

Pcm16 == profile(Str("AUDIO_FORMAT_PCM_16_BIT"), Str("48000"),
                 Str("AUDIO_CHANNEL_OUT_STEREO"))
Ac3 == profile(Str("AUDIO_FORMAT_AC3"), <<"44100", ",", "48000">>, Empty)

GainElements == {gain(Joint), gain(Bogus), gain(Channels), gain(Empty)}

EntityMixPorts ==
    {mixPort(NameA, Source),
     mixPortWith(NameB, Sink,
                 <<container("gains", <<gain(Bogus), gain(Joint)>>),
                   container("profiles", <<Ac3, Pcm16>>)>>),
     mixPort(Empty, Source),
     mixPort(NameB, Empty)}

EntityDevicePorts ==
    {devicePortWith(NameD, Str("AUDIO_DEVICE_OUT_SPEAKER"), Sink,
                    <<gain(Channels), gain(Empty), Pcm16>>),
     devicePort(Str("e"), Str("AUDIO_DEVICE_IN_BUILTIN_MIC"), Source),
     devicePort(Empty, Str("AUDIO_DEVICE_OUT_SPEAKER"), Sink),
     devicePort(NameD, Empty, Sink),
     devicePort(NameD, Str("AUDIO_DEVICE_OUT_SPEAKER"), Empty),
     devicePort(NameD, Str("AUDIO_DEVICE_OUT_WARP"), Sink),
     devicePort(NameD, Str("AUDIO_DEVICE_IN_BUILTIN_MIC"), Sink),
     devicePort(Str("e"), Str("AUDIO_DEVICE_OUT_SPEAKER"), Source)}

EntityRoutes ==
    {route(Mix, NameD, <<"a", ",", "b">>),
     route(Mux, NameD, <<"b">>),
     route(Empty, NameD, <<"a">>),
     route(Mix, Empty, <<"a">>),
     route(Mix, NameZ, <<"a">>)}

entityMixPorts ==
    <<mixPortWith(NameA, Source,
                  <<container("gains",
                              <<gain(Bogus), gain(Joint), gain(Empty), gain(Channels)>>)>>),
      mixPortWith(NameB, Source, <<container("profiles", <<Ac3, Pcm16>>)>>)>>

entityDevicePorts ==
    <<devicePortWith(NameD, Str("AUDIO_DEVICE_OUT_SPEAKER"), Sink,
                     <<container("gains", <<gain(Joint)>>)>>)>>

entityModule(name, mixes, devices, routes, shape) ==
    moduleNode(name, arrange("mixPort", mixes, shape)
                         \o arrange("devicePort", devices, shape)
                         \o arrange("route", routes, shape))

entityFixed(name) ==
    entityModule(name, entityMixPorts, entityDevicePorts, fixedRoutes, "wrapped")

EntityModules ==
    {<<entityModule(Str("m"), ms, entityDevicePorts, fixedRoutes, sh)>> :
         ms \in SeqsUpTo(EntityMixPorts, MaxPorts), sh \in {"wrapped", "bare"}}
    \cup {<<entityModule(Str("m"), entityMixPorts, ds, fixedRoutes, sh)>> :
         ds \in SeqsUpTo(EntityDevicePorts, MaxPorts), sh \in {"wrapped", "bare"}}
    \cup {<<entityModule(Str("m"), entityMixPorts, entityDevicePorts, rs, sh)>> :
         rs \in SeqsUpTo(EntityRoutes, MaxRoutes), sh \in {"wrapped", "bare"}}
    \cup {<<entityModule(Str("m"),
                         <<mixPortWith(NameA, Source, arrange("gain", gs, sh))>>,
                         entityDevicePorts, <<>>, "wrapped"),
            entityFixed(Str("n"))>> :
         gs \in SeqsUpTo(GainElements, MaxGains), sh \in {"wrapped", "bare"}}
    \cup {<<entityFixed(Empty), entityFixed(Str("m"))>>,
          <<entityFixed(Str("m")), entityFixed(Empty), entityFixed(Str("n"))>>,
          <<a2dpModule(<<>>, <<>>, <<>>), entityFixed(Str("m"))>>}

EntityDocs ==
    {document(rootName, mVersion, <<container("modules", ms)>>) : ms \in EntityModules}

\* The counter of the gains: a new process, or one that has parsed all but five
\* of the 2^32 gain elements the counter can tell apart.
GainIndices == {uint32(0), <<HalfWord - 1, HalfWord - 5>>}

InitEntity == InitAt(EntityDocs, {"x"}, GainIndices)
SpecEntity == InitEntity /\ [][Next]_vars

(* Documents with attached devices and default output devices: modules whose
   attachedDevices and defaultOutputDevice elements name device ports of the
   module, other names or nothing, a module that is dropped after the mono
   channel mask of an output device was replaced, and the global settings. *)

item(text) == TextNode("item", text)
attachedDevices(items) == container("attachedDevices", items)
defaultOutputDevice(text) == TextNode("defaultOutputDevice", text)
noDefaultOutputDevice == Node("defaultOutputDevice", NoAttrs, <<>>)

format(name, subformats) ==
    Node("format", [name |-> name, subformats |-> subformats], <<>>)

InMono == profile(Str("AUDIO_FORMAT_PCM_16_BIT"), Str("48000"), Str("AUDIO_CHANNEL_IN_MONO"))

speakerPort == outDevice(Speaker, "AUDIO_DEVICE_OUT_SPEAKER")
earpiecePort == outDevice(Earpiece, "AUDIO_DEVICE_OUT_EARPIECE")

deviceModule(name, devices, children) ==
    moduleNode(name,
               <<container("mixPorts", <<mixPort(NameA, Source)>>),
                 container("devicePorts", devices),
                 container("routes", <<route(Mix, Head(devices).attrs.tagName, NameA)>>)>>
                   \o children)

DeviceModules ==
    {\* an attached device that resolves and one that does not, and a default
     deviceModule(Str("m"), <<speakerPort, earpiecePort>>,
                  <<attachedDevices(<<item(Speaker), item(NameZ), item(Speaker)>>),
                    defaultOutputDevice(Speaker)>>),
     \* four defaults: the third is the first that resolves
     deviceModule(Str("n"), <<speakerPort, earpiecePort>>,
                  <<defaultOutputDevice(NameZ), noDefaultOutputDevice,
                    defaultOutputDevice(Earpiece), defaultOutputDevice(Speaker)>>),
     \* the mono channel mask of the earpiece is replaced
     deviceModule(Str("e"),
                  <<devicePortWith(Earpiece, Str("AUDIO_DEVICE_OUT_EARPIECE"), Sink,
                                   <<InMono>>)>>,
                  <<defaultOutputDevice(Earpiece)>>),
     \* the same for a speaker, and the second device port is refused
     deviceModule(Str("s"),
                  <<devicePortWith(Speaker, Str("AUDIO_DEVICE_OUT_SPEAKER"), Sink,
                                   <<InMono>>),
                    speakerPort>>,
                  <<defaultOutputDevice(Speaker)>>),
     \* an earpiece and nothing else
     deviceModule(Str("p"), <<earpiecePort>>, <<>>),
     \* a default that does not resolve
     deviceModule(Str("q"), <<speakerPort>>, <<defaultOutputDevice(Earpiece)>>),
     \* a module without a name
     deviceModule(Empty, <<speakerPort>>, <<defaultOutputDevice(Speaker)>>),
     \* a primary module whose default is a device port the A2DP quirk erases
     deviceModule(Str("primary"),
                  <<outDevice(BtA2dpOut, "AUDIO_DEVICE_OUT_BLUETOOTH_A2DP"), speakerPort>>,
                  <<defaultOutputDevice(BtA2dpOut)>>)}

GlobalSettings ==
    {<<>>,
     <<Node("globalConfiguration",
            [speaker_drc_enabled |-> Str("true"), engine_library |-> Str("configurable")],
            <<>>),
       Node("surroundSound", NoAttrs,
            <<container("formats",
                        <<format(Str("AUDIO_FORMAT_AC3"), Str("AUDIO_FORMAT_PCM_16_BIT"))>>)>>)>>}

DeviceDocs ==
    {document(rootName, mVersion, <<container("modules", ms)>> \o gs) :
         ms \in SeqsUpTo(DeviceModules, MaxModules) \ {<<>>}, gs \in GlobalSettings}

InitDevices == InitWith(DeviceDocs, {"x"})
SpecDevices == InitDevices /\ [][Next]_vars

-----------------------------------------------------------------------------
(* Documents with a surroundSound element *)

MaxFormats == 2

Pcm8Twice == <<"AUDIO_FORMAT_PCM_8_BIT", " ", "AUDIO_FORMAT_PCM_8_BIT">>

FormatElements ==
    {format(Str("AUDIO_FORMAT_AC3"), Str("AUDIO_FORMAT_PCM_16_BIT")),
     format(Str("AUDIO_FORMAT_PCM_16_BIT"), Empty),
     \* a subformat the converter does not know is left out
     format(Str("AUDIO_FORMAT_PCM_8_BIT"),
            <<"AUDIO_FORMAT_PCM_16_BIT", " ", "AUDIO_FORMAT_WARP">>),
     \* no name, a name the converter does not know, a subformat given twice
     format(Empty, Str("AUDIO_FORMAT_PCM_16_BIT")),
     format(Str("AUDIO_FORMAT_WARP"), Empty),
     format(Str("AUDIO_FORMAT_AC3"), Pcm8Twice)}

surroundSound(formats, shape) ==
    Node("surroundSound", NoAttrs,
         IF shape = "wrapped" THEN <<container("formats", formats)>> ELSE formats)

SurroundSettings ==
    {<<>>} \cup
    {<<surroundSound(fs, shape)>> :
         fs \in SeqsUpTo(FormatElements, MaxFormats), shape \in {"wrapped", "bare"}}

SurroundDocs ==
    {document(rootName, mVersion,
              <<container("modules", <<deviceModule(Str("m"), <<speakerPort>>, <<>>)>>)>>
                \o ss) : ss \in SurroundSettings}

InitSurround == InitWith(SurroundDocs, {"x"})
SpecSurround == InitSurround /\ [][Next]_vars

-----------------------------------------------------------------------------
(* Properties of the load, and the states that show their cases happen *)

\* The ports of a module, mix ports first.
ports(ctx) == ctx.mixPorts \o ctx.devicePorts

portTags(ctx) == {ports(ctx)[i].tagName : i \in 1..Len(ports(ctx))}

routeIds(ctx) == {ctx.routes[i].id : i \in 1..Len(ctx.routes)}

\* The elements named tag that are children of cur or of a container of cur,
\* in document order, each once.
RECURSIVE DeclaredFrom(_, _, _)
DeclaredFrom(tag, children, j) ==
    IF j > Len(children) THEN <<>>
    ELSE (IF children[j].name = tag THEN <<children[j]>>
          ELSE IF children[j].name = CollectionTag(tag)
               THEN SelectSeq(children[j].children, LAMBDA n : n.name = tag)
               ELSE <<>>)
             \o DeclaredFrom(tag, children, j + 1)

Declared(tag, cur) == DeclaredFrom(tag, cur.children, 1)

namesOf(elements, attribute) ==
    [i \in 1..Len(elements) |-> getXmlAttribute(elements[i], attribute)]

distinct(names) ==
    \A i, j \in 1..Len(names) : i < j => names[i] # names[j]

\* The module element declares no two mix ports and no two device ports under
\* one name.
portNamesDistinct(cur) ==
    /\ distinct(namesOf(Declared("mixPort", cur), "name"))
    /\ distinct(namesOf(Declared("devicePort", cur), "tagName"))

\* The root element or the version literal is not the supported one.
rootOrVersionRejected ==
    /\ doc.ok
    /\ \/ doc.root.name # "audioPolicyConfiguration"
       \/ "version" \notin DOMAIN doc.root.attrs
       \/ doc.root.attrs["version"] # <<"1.0">>

\* C1: loading a document whose root element is not audioPolicyConfiguration, or
\* whose version is absent or not "1.0", returns BAD_VALUE before any module,
\* port, route or gain is parsed and leaves the configuration as it was.
C1_RejectedBeforeParsing ==
    rootOrVersionRejected /\ pc # "start" =>
        /\ pc = "done"
        /\ status = BAD_VALUE
        /\ cursor = 0
        /\ module = NoModule
        /\ modules = <<>>
        /\ index = uint32(0)
        /\ config = FreshConfig

\* A document with the right root and the version "1.1" has been refused.
C1_Witness ==
    /\ pc = "done"
    /\ status = BAD_VALUE
    /\ doc.ok
    /\ doc.root.name = rootName
    /\ getXmlAttribute(doc.root, "version") = Str("1.1")
    /\ Len(doc.root.children) > 0


\* The position of the loaded module named name in modules, 0 when there is none.
loadedAs(name, loaded) ==
    IF \E m \in 1..Len(loaded) : loaded[m].name = name
    THEN CHOOSE m \in 1..Len(loaded) : loaded[m].name = name
    ELSE 0

\* A route element that has a type, names sources and whose sink is among tags.
routeRetained(e, tags) ==
    /\ getXmlAttribute(e, "type") # Empty
    /\ getXmlAttribute(e, "sources") # Empty
    /\ getXmlAttribute(e, "sink") \in tags

\* A mix port element that parses.
mixPortParses(e) ==
    getXmlAttribute(e, "name") # Empty /\ getXmlAttribute(e, "role") # Empty

\* A device port element that parses: the role agrees with the direction of the type.
devicePortParses(e) ==
    /\ getXmlAttribute(e, "tagName") # Empty
    /\ \/ /\ getXmlAttribute(e, "role") = <<"source">>
          /\ getXmlAttribute(e, "type") \in {<<t>> : t \in InputDevices}
       \/ /\ getXmlAttribute(e, "role") \notin {Empty, <<"source">>}
          /\ getXmlAttribute(e, "type") \in {<<t>> : t \in OutputDevices}

\* The module element declares two mix ports, or two device ports, that parse
\* and have the same tag name.
declaresDuplicatePort(cur) ==
    \/ ~ distinct(namesOf(SelectSeq(Declared("mixPort", cur), mixPortParses), "name"))
    \/ ~ distinct(namesOf(SelectSeq(Declared("devicePort", cur), devicePortParses),
                          "tagName"))

Range(s) == {s[i] : i \in 1..Len(s)}

tagNames(collection) == [i \in 1..Len(collection) |-> collection[i].tagName]

\* The loaded module has exactly one port for each name the element declares a
\* port that parses under, and a route for each declared route the parser retains.
loadedWithPortsAndRoutes(cur, ctx) ==
    /\ Range(tagNames(ctx.mixPorts))
           = Range(namesOf(SelectSeq(Declared("mixPort", cur), mixPortParses), "name"))
    /\ Range(tagNames(ctx.devicePorts))
           = Range(namesOf(SelectSeq(Declared("devicePort", cur), devicePortParses),
                           "tagName"))
    /\ distinct(tagNames(ctx.mixPorts))
    /\ distinct(tagNames(ctx.devicePorts))
    /\ Len(ctx.routes)
           = Len(SelectSeq(Declared("route", cur),
                           LAMBDA e : routeRetained(e, portTags(ctx))))

\* C2: after the load, a module that declares two mix ports or two device ports
\* with the same tag name is loaded, with the first of them, its other ports and
\* its routes.
C2_DuplicatePortKeepsModule ==
    status = "OK" =>
        \A k \in 1..Len(moduleElements) :
            LET cur == moduleElements[k]
                m == loadedAs(getXmlAttribute(cur, "name"), config.hwModules)
            IN declaresDuplicatePort(cur) /\ getXmlAttribute(cur, "name") # Empty =>
                   /\ m # 0
                   /\ loadedWithPortsAndRoutes(cur, config.hwModules[m])


\* The route elements handed to RouteTraits::deserialize for the module element
\* being loaded, and those of them the parser retains.
offeredRoutes == visit("route", curModule)
retainedRoutes == SelectSeq(offeredRoutes, LAMBDA e : routeRetained(e, portTags(module)))

\* The module elements already handled whose ports load: they have a name, their
\* port elements parse and no two ports of one collection have the same name.
portsLoad(k) ==
    /\ getXmlAttribute(moduleElements[k], "name") # Empty
    /\ portNamesDistinct(moduleElements[k])
    /\ \A e \in Range(Declared("mixPort", moduleElements[k])) : mixPortParses(e)
    /\ \A e \in Range(Declared("devicePort", moduleElements[k])) : devicePortParses(e)

\* C4: a route whose sink names no port of the module is omitted from the routes
\* of the module, no port has a back-link to it, and the module loads with its
\* other routes: after the routes of a module element are parsed the module has
\* exactly the routes whose sink resolves, each with that sink, the back-links
\* of its ports refer to those routes only, and every module element whose ports
\* load yields a module.
C4_UnresolvedSinkOmitted ==
    /\ pc = "a2dpRoutes" =>
           /\ Len(module.routes) = Len(retainedRoutes)
           /\ \A i \in 1..Len(module.routes) :
                  /\ module.routes[i].sink # NULL
                  /\ module.routes[i].sink[2] = getXmlAttribute(retainedRoutes[i], "sink")
                  /\ module.routes[i].sink[2] \in portTags(module)
           /\ \A i \in 1..Len(ports(module)) :
                  ports(module)[i].routes \subseteq routeIds(module)
    /\ pc \in {"module", "done"} /\ doc.ok =>
           Cardinality({k \in 1..cursor : portsLoad(k)}) <= Len(modules)

\* A module with a route has been given a route element that has a type and
\* sources and whose sink names none of its ports.
C4_Witness ==
    /\ pc = "a2dpRoutes"
    /\ Len(module.routes) >= 1
    /\ \E i \in 1..Len(offeredRoutes) :
           /\ getXmlAttribute(offeredRoutes[i], "type") # Empty
           /\ getXmlAttribute(offeredRoutes[i], "sources") # Empty
           /\ getXmlAttribute(offeredRoutes[i], "sink") # Empty
           /\ getXmlAttribute(offeredRoutes[i], "sink") \notin portTags(module)

\* The positions of s at which a name of a comma-separated list ends or begins.
cuts(s) == {0, Len(s) + 1} \cup {i \in 1..Len(s) : s[i] = ","}

\* The names of a comma-separated list: what lies between two neighbouring cuts.
namesBetween(s) ==
    LET begins == {p \in cuts(s) : p <= Len(s) /\ p + 1 \notin cuts(s)}
        nth(k) == CHOOSE p \in begins : Cardinality({q \in begins : q < p}) = k - 1
        next(p) == CHOOSE q \in cuts(s) : q > p /\ \A r \in cuts(s) : r > p => q <= r
    IN [k \in 1..Cardinality(begins) |-> SubSeq(s, nth(k) + 1, next(nth(k)) - 1)]

\* A name without the whitespace around it.
stripped(s) ==
    LET solid == {i \in 1..Len(s) : s[i] # " "}
    IN IF solid = {} THEN Empty
       ELSE SubSeq(s, CHOOSE i \in solid : \A j \in solid : i <= j,
                      CHOOSE i \in solid : \A j \in solid : i >= j)

\* The tag names a sources attribute resolves to among tags, in declared order.
resolvedNames(s, tags) ==
    LET named == namesBetween(s)
        hits == SelectSeq(named, LAMBDA n : n \in tags \/ stripped(n) \in tags)
    IN [k \in 1..Len(hits) |-> IF hits[k] \in tags THEN hits[k] ELSE stripped(hits[k])]

\* C5: a retained route has as its sources exactly the ports its declared source
\* names resolve to, directly or with the whitespace around them trimmed, in their
\* declared order; the names that do not resolve are dropped.
C5_ResolvedSourcesInOrder ==
    pc = "a2dpRoutes" =>
        /\ Len(module.routes) = Len(retainedRoutes)
        /\ \A i \in 1..Len(module.routes) :
               /\ [k \in 1..Len(module.routes[i].sources) |-> module.routes[i].sources[k][2]]
                      = resolvedNames(getXmlAttribute(retainedRoutes[i], "sources"),
                                      portTags(module))
               /\ \A k \in 1..Len(module.routes[i].sources) :
                      module.routes[i].id \in
                          UNION {ports(module)[j].routes :
                                     j \in {n \in 1..Len(ports(module)) :
                                                ports(module)[n].tagName
                                                    = module.routes[i].sources[k][2]}}

\* A route declared with the sources " a ,zz,b " has the two sources a and b.
C5_Witness ==
    /\ pc = "a2dpRoutes"
    /\ \E i \in 1..Len(module.routes) :
           /\ i <= Len(retainedRoutes)
           /\ getXmlAttribute(retainedRoutes[i], "sources")
                  = <<" ", "a", " ", ",", "zz", ",", "b", " ">>
           /\ module.routes[i].sources = <<<<"mix", <<"a">>>>, <<"mix", <<"b">>>>>>

\* C9: after a successful load no two ports of a module, its mix ports and device
\* ports taken together, have the same tag name.
C9_TagNamesUniqueInModule ==
    status = "OK" =>
        \A m \in 1..Len(config.hwModules) : distinct(tagNames(ports(config.hwModules[m])))

\* The elements named tag in the containers in front of the first bare element
\* named tag, followed by the bare elements named tag.
walked(tag, cur) ==
    LET bare == {j \in 1..Len(cur.children) : cur.children[j].name = tag}
        first == IF bare = {} THEN Len(cur.children) + 1
                 ELSE CHOOSE j \in bare : \A k \in bare : j <= k
    IN DeclaredFrom(tag, SubSeq(cur.children, 1, first - 1), 1)
           \o SelectSeq(cur.children, LAMBDA n : n.name = tag)

\* The elements taken to be offered for insertion: all the declared ones, or the
\* walked ones only.
offered(all, tag, cur) == IF all THEN Declared(tag, cur) ELSE walked(tag, cur)

\* The ports and routes a module has right after each collection is parsed are
\* those of the elements offered for insertion.
parsedAsOffered(all) ==
    /\ pc = "a2dpMixPort" =>
           tagNames(module.mixPorts)
               = namesOf(SelectSeq(offered(all, "mixPort", curModule), mixPortParses), "name")
    /\ pc = "a2dpDevicePorts" =>
           tagNames(module.devicePorts)
               = namesOf(SelectSeq(offered(all, "devicePort", curModule), devicePortParses),
                         "tagName")
    /\ pc = "a2dpRoutes" =>
           [i \in 1..Len(module.routes) |-> module.routes[i].sink[2]]
               = namesOf(SelectSeq(offered(all, "route", curModule),
                                   LAMBDA e : routeRetained(e, portTags(module))), "sink")

portAt(ctx, key) ==
    LET collection == IF key[1] = "mix" THEN ctx.mixPorts ELSE ctx.devicePorts
    IN collection[CHOOSE i \in 1..Len(collection) : collection[i].tagName = key[2]]

hasPort(ctx, key) ==
    /\ key # NULL
    /\ HasTagName(IF key[1] = "mix" THEN ctx.mixPorts ELSE ctx.devicePorts, key[2])

portKey(port) == <<port.kind, port.tagName>>

\* The routes of a module and the back-links of its ports agree.
backLinksConsistent(ctx) ==
    /\ \A i \in 1..Len(ctx.routes) :
           LET r == ctx.routes[i]
           IN /\ hasPort(ctx, r.sink)
              /\ r.id \in portAt(ctx, r.sink).routes
              /\ \A k \in 1..Len(r.sources) :
                     /\ hasPort(ctx, r.sources[k])
                     /\ r.id \in portAt(ctx, r.sources[k]).routes
    /\ \A j \in 1..Len(ports(ctx)) :
           \A id \in ports(ctx)[j].routes :
               \E i \in 1..Len(ctx.routes) :
                   /\ ctx.routes[i].id = id
                   /\ \/ ctx.routes[i].sink = portKey(ports(ctx)[j])
                      \/ portKey(ports(ctx)[j]) \in Range(ctx.routes[i].sources)

\* C3: after a successful load the routes of every module are in the back-link
\* sets of their sink and sources, and every route in the back-link set of a port
\* is a route of the module with that port as its sink or a source.
C3_BackLinksConsistent ==
    status = "OK" =>
        \A m \in 1..Len(config.hwModules) : backLinksConsistent(config.hwModules[m])

declaresNamed(tag, attribute, cur, names) ==
    \E e \in Range(Declared(tag, cur)) : getXmlAttribute(e, attribute) \in names

\* The positions of the elements of a collection with a tag name among names.
tagged(collection, names) ==
    {i \in 1..Len(collection) : collection[i].tagName \in names}

\* The positions of the mix routes of a module that sink into the device port.
mixRoutesInto(ctx, tagName) ==
    {i \in 1..Len(ctx.routes) :
         ctx.routes[i].type = "mix" /\ ctx.routes[i].sink = <<"device", tagName>>}

pcm16Stereo ==
    [format |-> "AUDIO_FORMAT_PCM_16_BIT", channels |-> {"AUDIO_CHANNEL_OUT_STEREO"},
     rates |-> {"44100", "48000", "96000"},
     isDynamicFormat |-> FALSE, isDynamicChannels |-> FALSE, isDynamicRate |-> FALSE]

fullyDynamic ==
    [format |-> "AUDIO_FORMAT_DEFAULT", channels |-> {}, rates |-> {},
     isDynamicFormat |-> TRUE, isDynamicChannels |-> TRUE, isDynamicRate |-> TRUE]

\* The module has the one mix port, the three device ports and the three routes
\* of the A2DP quirk, and no second port or route of their kind.
a2dpSynthesized(ctx) ==
    /\ Cardinality(tagged(ctx.mixPorts, {A2dpOutput})) = 1
    /\ \A i \in tagged(ctx.mixPorts, {A2dpOutput}) :
           /\ ctx.mixPorts[i].role = "source"
           /\ ctx.mixPorts[i].profiles = <<fullyDynamic>>
    /\ \A n \in Range(a2dpOuts) :
           /\ Cardinality(tagged(ctx.devicePorts, {n})) = 1
           /\ \A i \in tagged(ctx.devicePorts, {n}) :
                  /\ ctx.devicePorts[i].profiles = <<pcm16Stereo>>
                  /\ \A j \in tagged(ctx.devicePorts, Range(a2dpOuts)) :
                         ctx.devicePorts[j].address = ctx.devicePorts[i].address
           /\ Cardinality(mixRoutesInto(ctx, n)) = 1
           /\ \A i \in mixRoutesInto(ctx, n) :
                  ctx.routes[i].sources = <<<<"mix", A2dpOutput>>>>

a2dpPatched == pc \in {"fixup", "children"} /\ module.name = <<"a2dp">>

\* C6 as stated: with the A2DP flag enabled for the load, an a2dp module whose
\* element declares no mix port named "a2dp output" has, once loaded, the added
\* mix port, device ports and routes, whatever else its element declares.
C6_A2dpSynthesizedWhateverDeclared ==
    a2dpPatched /\ property
        /\ ~ declaresNamed("mixPort", "name", curModule, {A2dpOutput})
        => a2dpSynthesized(module)

\* C6 amended: with the A2DP flag still set when the a2dp module is loaded, and
\* the element of the module declaring no mix port under one of the four names,
\* no device port under one of the three device names and no route that sinks
\* into one of them, the module has the added mix port, device ports and routes.
C6_A2dpSynthesizedUnlessDeclared ==
    a2dpPatched /\ forceDisableA2dpOffload
        /\ ~ declaresNamed("mixPort", "name", curModule,
                           {A2dpOutput} \cup Range(a2dpOuts))
        /\ ~ declaresNamed("devicePort", "tagName", curModule, Range(a2dpOuts))
        /\ ~ declaresNamed("route", "sink", curModule, Range(a2dpOuts))
        => a2dpSynthesized(module)

\* An a2dp module that declares ports and a route of its own has got the added
\* ones beside them.
C6_Witness ==
    /\ a2dpPatched
    /\ forceDisableA2dpOffload
    /\ Len(Declared("route", curModule)) = 1
    /\ Len(module.mixPorts) = 2
    /\ Len(module.devicePorts) = 4
    /\ Len(module.routes) = 4
    /\ a2dpSynthesized(module)

namedPrimary(ctx) == ctx.name = <<"primary">>

\* The positions of the loaded modules named "primary".
primaryModules == {m \in 1..Len(config.hwModules) : namedPrimary(config.hwModules[m])}

\* The premise of C7: the flag is enabled for the load and the document has a
\* primary module and an a2dp module without a mix port named "a2dp output".
primaryAndA2dpDeclared ==
    /\ property
    /\ \E e \in Range(moduleElements) : getXmlAttribute(e, "name") = <<"primary">>
    /\ \E e \in Range(moduleElements) :
           /\ getXmlAttribute(e, "name") = <<"a2dp">>
           /\ ~ declaresNamed("mixPort", "name", e, {A2dpOutput})

\* C7 as stated: the primary module keeps no device port with one of the three
\* A2DP names and no route, of any type, whose sink or a source has such a name.
C7_PrimaryWithoutA2dpNames ==
    status = "OK" /\ primaryAndA2dpDeclared =>
        \A m \in primaryModules :
            LET ctx == config.hwModules[m]
            IN /\ \A i \in 1..Len(ctx.devicePorts) :
                      ctx.devicePorts[i].tagName \notin Range(a2dpOuts)
               /\ \A i \in 1..Len(ctx.routes) :
                      /\ ctx.routes[i].sink[2] \notin Range(a2dpOuts)
                      /\ \A k \in 1..Len(ctx.routes[i].sources) :
                             ctx.routes[i].sources[k][2] \notin Range(a2dpOuts)

\* C7 amended: when the flag is still set at the end of the load, the primary
\* module keeps no device port with one of the three A2DP names and no route, of
\* any type, whose sink or a source is a device port with such a name.
C7_PrimaryWithoutA2dpDevices ==
    status = "OK" /\ primaryAndA2dpDeclared /\ forceDisableA2dpOffload =>
        \A m \in primaryModules :
            LET ctx == config.hwModules[m]
            IN /\ \A i \in 1..Len(ctx.devicePorts) :
                      ctx.devicePorts[i].tagName \notin Range(a2dpOuts)
               /\ \A i \in 1..Len(ctx.routes) :
                      /\ ctx.routes[i].sink \notin {<<"device", n>> : n \in Range(a2dpOuts)}
                      /\ \A k \in 1..Len(ctx.routes[i].sources) :
                             ctx.routes[i].sources[k]
                                 \notin {<<"device", n>> : n \in Range(a2dpOuts)}

\* A primary module that declares the three device ports and routes into them
\* is loaded behind an a2dp module that got the added ports.
C7_Witness ==
    /\ status = "OK"
    /\ primaryAndA2dpDeclared
    /\ forceDisableA2dpOffload
    /\ Len(config.hwModules) = 2
    /\ config.hwModules[1].name = <<"a2dp">>
    /\ a2dpSynthesized(config.hwModules[1])
    /\ namedPrimary(config.hwModules[2])
    /\ Len(config.hwModules[2].routes) = 1
    /\ declaresNamed("devicePort", "tagName", moduleElements[2], Range(a2dpOuts))
    /\ declaresNamed("route", "sink", moduleElements[2], {BtA2dpHeadphones})

routesInto(ctx, tagName) == {i \in 1..Len(ctx.routes) : ctx.routes[i].sink[2] = tagName}

\* The premise of C8 for routes of the given types.
scoRouteMissing(ctx, types) ==
    /\ HasTagName(ctx.devicePorts, BtScoHeadset)
    /\ \E i \in 1..Len(ctx.routes) :
           /\ ctx.routes[i].type \in types
           /\ \E k \in 1..Len(ctx.routes[i].sources) :
                  ctx.routes[i].sources[k][2] = BtScoHeadsetMic
           /\ types # {"mix", "mux"} => ctx.routes[i].sink[2] # TelephonyTx
    /\ \E i \in routesInto(ctx, TelephonyTx) : ctx.routes[i].type \in types
    /\ routesInto(ctx, BtScoHeadset) = {}

\* One route sinks into "BT SCO Headset": its sources are those of the four
\* names that are ports of the module, in order, and it is in the back-link
\* sets of its sink and sources.
scoRouteAdded(ctx) ==
    /\ Cardinality(routesInto(ctx, BtScoHeadset)) = 1
    /\ \A i \in routesInto(ctx, BtScoHeadset) :
           /\ [k \in 1..Len(ctx.routes[i].sources) |-> ctx.routes[i].sources[k][2]]
                  = SelectSeq(<<<<"primary", " ", "output">>, <<"deep_buffer">>,
                                <<"compressed_offload">>, <<"Telephony", " ", "Rx">>>>,
                              LAMBDA n : n \in portTags(ctx))
           /\ \A key \in {ctx.routes[i].sink} \cup Range(ctx.routes[i].sources) :
                  hasPort(ctx, key) /\ ctx.routes[i].id \in portAt(ctx, key).routes

\* C8 as stated: a module with the device port "BT SCO Headset", a route with the
\* source "BT SCO Headset Mic", a route into "Telephony Tx" and no route into
\* "BT SCO Headset" gets exactly one route into "BT SCO Headset".
C8_ScoRouteAddedForAnyRoutes ==
    [][pc = "fixup" /\ scoRouteMissing(module, {"mix", "mux"}) => scoRouteAdded(module')]_vars

\* C8 amended: the route is added when the route with the source "BT SCO Headset
\* Mic" and the route into "Telephony Tx" are mix routes, and the former does
\* not itself sink into "Telephony Tx".
C8_ScoRouteAddedForMixRoutes ==
    [][pc = "fixup" /\ scoRouteMissing(module, {"mix"}) => scoRouteAdded(module')]_vars

\* The route has been added, with three sources, to a module that declares a
\* mix route from the Mic and a mix route into "Telephony Tx".
C8_Witness ==
    /\ pc = "children"
    /\ Len(module.routes) = 3
    /\ module.routes[1].type = "mix"
    /\ module.routes[2].type = "mix"
    /\ routesInto(module, BtScoHeadset) = {3}
    /\ Len(module.routes[3].sources) = 3
    /\ Len(Declared("route", curModule)) = 2


\* A gain element whose mode names a gain mode: its mode does not evaluate to zero.
gainParses(e) == getXmlAttribute(e, "mode") \in {<<m>> : m \in KnownGainModes}

\* The modes of the gains of a loaded port, and the modes its element declares
\* in gain elements that parse, both in order.
gainModes(port) == [k \in 1..Len(port.gains) |-> port.gains[k].mode]

declaredGainModes(e) ==
    LET gains == SelectSeq(walked("gain", e), gainParses)
    IN [k \in 1..Len(gains) |-> {getXmlAttribute(gains[k], "mode")[1]}]

\* The tag name and the gain modes of each port of a collection, and of each
\* port element that parses.
namedGains(collection) ==
    [i \in 1..Len(collection) |-> <<collection[i].tagName, gainModes(collection[i])>>]

declaredNamedGains(elements, attribute) ==
    [i \in 1..Len(elements) |->
        <<getXmlAttribute(elements[i], attribute), declaredGainModes(elements[i])>>]

\* A module element that has a name and no two mix ports, and no two device
\* ports, that parse under one name: no insertion of a port is refused.
moduleLoads(e) ==
    /\ getXmlAttribute(e, "name") # Empty
    /\ distinct(namesOf(SelectSeq(walked("mixPort", e), mixPortParses), "name"))
    /\ distinct(namesOf(SelectSeq(walked("devicePort", e), devicePortParses), "tagName"))

\* C11: an entity whose own parse fails is left out of its collection and the
\* entities around it are inserted as they are without it: a module has the
\* mix ports, the device ports and the routes of the elements that parse, in
\* order, each port with the gains of its gain elements that parse, and the
\* load of an accepted document returns success with the modules of the
\* module elements that have a name and none of whose ports is refused.
C11_FailedEntityOmitted ==
    /\ pc = "a2dpMixPort" =>
           namedGains(module.mixPorts)
               = declaredNamedGains(SelectSeq(walked("mixPort", curModule), mixPortParses),
                                    "name")
    /\ pc = "a2dpDevicePorts" =>
           namedGains(module.devicePorts)
               = declaredNamedGains(SelectSeq(walked("devicePort", curModule),
                                              devicePortParses), "tagName")
    /\ pc = "a2dpRoutes" =>
           [i \in 1..Len(module.routes) |-> module.routes[i].sink[2]]
               = namesOf(SelectSeq(walked("route", curModule),
                                   LAMBDA e : routeRetained(e, portTags(module))), "sink")
    /\ pc = "done" /\ documentAccepted(doc) =>
           /\ status = "OK"
           /\ [m \in 1..Len(config.hwModules) |-> config.hwModules[m].name]
                  = namesOf(SelectSeq(walked("module", doc.root), moduleLoads), "name")

\* A document with a module without a name between two modules has been loaded:
\* both are there, the first with the two gains of the four gain elements of
\* its first mix port that have a mode.
C11_Witness ==
    /\ pc = "done"
    /\ status = "OK"
    /\ Len(moduleElements) = 3
    /\ getXmlAttribute(moduleElements[2], "name") = Empty
    /\ Len(config.hwModules) = 2
    /\ Len(walked("gain", walked("mixPort", moduleElements[1])[1])) = 4
    /\ gainModes(config.hwModules[1].mixPorts[1])
           = <<{"AUDIO_GAIN_MODE_JOINT"}, {"AUDIO_GAIN_MODE_CHANNELS"}>>


\* The gains of the ports of a collection, in the order of the ports.
RECURSIVE gainsOf(_)
gainsOf(collection) ==
    IF collection = <<>> THEN <<>>
    ELSE Head(collection).gains \o gainsOf(Tail(collection))

\* The gains of the modules of a collection: those of the mix ports of a module
\* come before those of its device ports, as they are parsed.
RECURSIVE gainsOfModules(_)
gainsOfModules(collection) ==
    IF collection = <<>> THEN <<>>
    ELSE gainsOf(Head(collection).mixPorts) \o gainsOf(Head(collection).devicePorts)
             \o gainsOfModules(Tail(collection))

RECURSIVE gainsReturned(_)
gainsReturned(calls) ==
    IF calls = <<>> THEN <<>>
    ELSE gainsOfModules(Head(calls).config.hwModules) \o gainsReturned(Tail(calls))

\* The gains accepted so far in the process, in the order they were parsed:
\* those of the configurations of the earlier calls, of the modules of this call
\* and of the module under construction.
acceptedGains ==
    gainsReturned(returned) \o gainsOfModules(modules)
        \o (IF module = NoModule THEN <<>> ELSE gainsOfModules(<<module>>))

increasing(gains) ==
    \A i, j \in 1..Len(gains) : i < j => less(gains[i].index, gains[j].index)

declaresNoProfile(e) == walked("profile", e) = <<>>

\* The ports of the modules loaded so far and of the module under construction.
portsSoFar ==
    UNION {Range(ports(modules[m])) : m \in 1..Len(modules)}
        \cup (IF module = NoModule THEN {} ELSE Range(ports(module)))

\* Each port of a collection whose element declares no profile has the fully
\* dynamic profile and no other.
dynamicWhenNoneDeclared(collection, elements) ==
    \A i \in 1..Len(collection) :
        i <= Len(elements) /\ declaresNoProfile(elements[i]) =>
            collection[i].profiles = <<fullyDynamic>>

\* C14: every port of every module, parsed or added by the quirks, has at least
\* one profile, during the load and after it, and a parsed port whose element
\* declares no profile has exactly one, the fully dynamic one.
C14_ProfilesNeverEmpty ==
    /\ \A port \in portsSoFar : port.profiles # <<>>
    /\ status = "OK" =>
           \A m \in 1..Len(config.hwModules) :
               \A port \in Range(ports(config.hwModules[m])) : port.profiles # <<>>
    /\ pc = "a2dpMixPort" =>
           dynamicWhenNoneDeclared(module.mixPorts,
               SelectSeq(walked("mixPort", curModule), mixPortParses))
    /\ pc = "a2dpDevicePorts" =>
           dynamicWhenNoneDeclared(module.devicePorts,
               SelectSeq(walked("devicePort", curModule), devicePortParses))

\* A loaded module has a port with the fully dynamic profile only, whose element
\* declares none, beside a port with the two profiles its element declares, and
\* an a2dp module of the same configuration has the ports added by the quirk.
C14_Witness ==
    /\ status = "OK"
    /\ \E m \in 1..Len(config.hwModules) :
           /\ Len(config.hwModules[m].mixPorts) = 2
           /\ config.hwModules[m].mixPorts[1].profiles = <<fullyDynamic>>
           /\ Len(config.hwModules[m].mixPorts[2].profiles) = 2
           /\ declaresNoProfile(walked("mixPort", moduleElements[m])[1])
    /\ \E m \in 1..Len(config.hwModules) :
           /\ config.hwModules[m].name = <<"a2dp">>
           /\ Len(config.hwModules[m].devicePorts) = 3


\* The tag name and the device type of each device port of a collection, and
\* the tagName and type attributes of device port elements.
typedAs(collection) ==
    [i \in 1..Len(collection) |-> <<collection[i].tagName, <<collection[i].type>>>>]

declaredTypedAs(elements) ==
    [i \in 1..Len(elements) |->
        <<getXmlAttribute(elements[i], "tagName"), getXmlAttribute(elements[i], "type")>>]

\* A device port whose type is the name of a device of the direction of a role.
fitsRole(port, role) ==
    IF role = <<"source">> THEN port.type \in InputDevices ELSE port.type \in OutputDevices

\* C16: the device ports of a module are those of the device port elements
\* whose type names a device of the direction of the role, in order, each with
\* the type its element names; an element whose type is unknown, or is not an
\* input device for the role source, or not an output device for another role,
\* yields no device port, and every device port a route has as its sink or as
\* a source is one of these device ports.
C16_DeviceTypeFitsRole ==
    /\ pc = "a2dpDevicePorts" =>
           /\ typedAs(module.devicePorts)
                  = declaredTypedAs(SelectSeq(walked("devicePort", curModule),
                                              devicePortParses))
           /\ \A i \in 1..Len(module.devicePorts) :
                  \E e \in Range(walked("devicePort", curModule)) :
                      /\ getXmlAttribute(e, "tagName") = module.devicePorts[i].tagName
                      /\ getXmlAttribute(e, "role") # Empty
                      /\ fitsRole(module.devicePorts[i], getXmlAttribute(e, "role"))
    /\ pc = "a2dpRoutes" =>
           \A i \in 1..Len(module.routes) :
               \A key \in {module.routes[i].sink} \cup Range(module.routes[i].sources) :
                   key[1] = "device" =>
                       /\ HasTagName(module.devicePorts, key[2])
                       /\ portAt(module, key).type \in OutputDevices \cup InputDevices

\* A module whose only device port element names an input device for the role
\* sink has no device port, and the route declared into it is not there.
C16_Witness ==
    /\ pc = "a2dpRoutes"
    /\ Len(walked("devicePort", curModule)) = 1
    /\ getXmlAttribute(walked("devicePort", curModule)[1], "type")
           = <<"AUDIO_DEVICE_IN_BUILTIN_MIC">>
    /\ getXmlAttribute(walked("devicePort", curModule)[1], "role") = <<"sink">>
    /\ module.devicePorts = <<>>
    /\ Len(walked("route", curModule)) = 1
    /\ module.routes = <<>>


\* The positions of the defaultOutputDevice children of a module element that
\* have a text naming a device port of the module.
resolvingDefaults(cur, ctx) ==
    {j \in 1..Len(cur.children) :
         /\ cur.children[j].name = "defaultOutputDevice"
         /\ "text" \in DOMAIN cur.children[j]
         /\ cur.children[j].text \in Range(tagNames(ctx.devicePorts))}

\* The default output device after the children of the k-th module element are
\* handled: the one set before, else the device port the first resolving entry
\* names, else none.
defaultAfter(before, cur, ctx, k) ==
    IF before # NoDevice THEN before
    ELSE IF resolvingDefaults(cur, ctx) = {} THEN NoDevice
    ELSE LET first == CHOOSE j \in resolvingDefaults(cur, ctx) :
                          \A n \in resolvingDefaults(cur, ctx) : j <= n
         IN [element |-> k, module |-> ctx.name, tagName |-> cur.children[first].text]

\* C15: over the modules of a load in document order, the default output device
\* of the configuration is set by the first defaultOutputDevice entry that names
\* a device port of its own module; the entries handled after it, of the same
\* and of later modules, leave it as it is, an entry that names no device port
\* of its module sets nothing, and no other step of the load changes it.
C15_FirstDefaultOutputDeviceWins ==
    [][/\ pc = "children" =>
              config'.defaultOutputDevice
                  = defaultAfter(config.defaultOutputDevice, curModule, module, cursor + 1)
       /\ pc \notin {"children", "done"} =>
              config'.defaultOutputDevice = config.defaultOutputDevice]_vars

\* Two modules are loaded: the first has four entries, of which the third is
\* the first that resolves, the second has an entry that resolves, and the
\* default output device is the earpiece of the first module.
C15_Witness ==
    /\ status = "OK"
    /\ Len(moduleElements) = 2
    /\ Len(config.hwModules) = 2
    /\ Cardinality(resolvingDefaults(moduleElements[1], config.hwModules[1])) = 2
    /\ \E j \in 1..Len(moduleElements[1].children) :
           /\ moduleElements[1].children[j] = defaultOutputDevice(NameZ)
           /\ \A n \in resolvingDefaults(moduleElements[1], config.hwModules[1]) : j < n
    /\ resolvingDefaults(moduleElements[2], config.hwModules[2]) # {}
    /\ config.defaultOutputDevice
           = [element |-> 1, module |-> config.hwModules[1].name, tagName |-> Earpiece]


\* A collection of ports with the indices of their gains left out.
withoutGainIndices(collection) ==
    [i \in 1..Len(collection) |->
        [collection[i] EXCEPT !.gains =
            [k \in 1..Len(collection[i].gains) |->
                [collection[i].gains[k] EXCEPT !.index = uint32(0)]]]]

\* What a call returned, the indices of the gains left out: the status, and the
\* modules with their ports, profiles, routes and back-links, the attached
\* devices, the default output device, the global settings and the surround
\* formats of the configuration.
structureOf(result) ==
    [status |-> result.status,
     config |-> [result.config EXCEPT !.hwModules =
                    [m \in 1..Len(result.config.hwModules) |->
                        [result.config.hwModules[m] EXCEPT
                            !.mixPorts = withoutGainIndices(@),
                            !.devicePorts = withoutGainIndices(@)]]]]

\* C12: a process that loads a document twice, each time into a newly
\* constructed configuration and with the same value of the flag, gets two
\* results that differ at most in the indices of the gains.
C12_SecondLoadSameStructure ==
    pc = "done" /\ returned # <<>> =>
        structureOf([status |-> status, config |-> config]) = structureOf(returned[1])

\* The second load of a document with gains has returned what the first load
\* returned, but for the indices of the gains.
C12_SameButIndices ==
    /\ pc = "done"
    /\ status = "OK"
    /\ returned # <<>>
    /\ Len(gainsOfModules(config.hwModules)) >= 1
    /\ config # returned[1].config
    /\ structureOf([status |-> status, config |-> config]) = structureOf(returned[1])


\* The format elements a surroundSound element declares, in a formats
\* container or as its own children.
declaredFormats(block) ==
    LET RECURSIVE under(_, _)
        under(kids, i) ==
            IF i > Len(kids) THEN <<>>
            ELSE (IF kids[i].name = "format" THEN <<kids[i]>>
                  ELSE IF kids[i].name = "formats"
                       THEN SelectSeq(kids[i].children, LAMBDA n : n.name = "format")
                       ELSE <<>>) \o under(kids, i + 1)
    IN under(block.children, 1)

\* The formats a surroundSound element validly declares, each with its
\* subformats: those of its format elements that parse.
validFormats(block) ==
    LET elements == declaredFormats(block)
    IN {SurroundSoundFormatTraits_deserialize(elements[i], statics).element :
            i \in {k \in 1..Len(elements) :
                       SurroundSoundFormatTraits_deserialize(elements[k], statics).ok}}

surroundTable(cfg) == {cfg.surroundFormats[i] : i \in 1..Len(cfg.surroundFormats)}

surroundBlocks == SelectSeq(doc.root.children, LAMBDA n : n.name = "surroundSound")

\* C17: after a successful load the surround format table is the default
\* table exactly when the document has no surroundSound element, and with such
\* an element the table holds the formats validly declared in it, each with its
\* declared subformats.
C17_SurroundTableAsDeclared ==
    pc = "done" /\ status = "OK" =>
        /\ surroundTable(config) = surroundTable([surroundFormats |-> DefaultSurroundFormats])
              <=> surroundBlocks = <<>>
        /\ surroundBlocks # <<>> =>
              surroundTable(config) = validFormats(surroundBlocks[1])

\* No format is validly declared twice in the element.
declaredOnce(block) ==
    LET elements == declaredFormats(block)
    IN \A i, j \in 1..Len(elements) :
           /\ SurroundSoundFormatTraits_deserialize(elements[i], statics).ok
           /\ SurroundSoundFormatTraits_deserialize(elements[j], statics).ok
           /\ SurroundSoundFormatTraits_deserialize(elements[i], statics).element.format
                = SurroundSoundFormatTraits_deserialize(elements[j], statics).element.format
           => i = j

\* The same for the documents whose surroundSound element declares no format
\* twice.
C17_SurroundTableUnlessRepeated ==
    pc = "done" /\ status = "OK"
      /\ (surroundBlocks # <<>> => declaredOnce(surroundBlocks[1])) =>
        /\ surroundTable(config) = surroundTable([surroundFormats |-> DefaultSurroundFormats])
              <=> surroundBlocks = <<>>
        /\ surroundBlocks # <<>> =>
              surroundTable(config) = validFormats(surroundBlocks[1])

\* A load that read two formats of a surroundSound element into the table.
C17_TableRead ==
    /\ pc = "done"
    /\ status = "OK"
    /\ surroundBlocks # <<>>
    /\ Len(config.surroundFormats) = 2
    /\ \E i \in 1..2 : config.surroundFormats[i].subformats # {}

\* A load that met a format declared twice and left the default table.
C17_RepeatedFormat ==
    /\ pc = "done"
    /\ status = "OK"
    /\ surroundBlocks # <<>>
    /\ ~ declaredOnce(surroundBlocks[1])
    /\ config.surroundFormats = DefaultSurroundFormats


\* C18: with the flag set, the step that looks at the mix ports of an a2dp
\* module with a mix port named "a2dp output" clears the flag and adds no mix
\* port; once the flag is clear it stays clear until the next load reads the
\* property, and with the flag clear the steps of the quirk add and erase no
\* device port and no route, in that module and in the modules after it.
C18_DeclaredA2dpOutputClearsFlag ==
    [][/\ pc = "a2dpMixPort" /\ forceDisableA2dpOffload /\ isA2dpModule
             /\ HasTagName(module.mixPorts, A2dpOutput)
          => ~ forceDisableA2dpOffload' /\ module' = module
       /\ ~ forceDisableA2dpOffload /\ pc # "start" => ~ forceDisableA2dpOffload'
       /\ ~ forceDisableA2dpOffload /\ pc \in {"a2dpMixPort", "a2dpDevicePorts", "a2dpRoutes"}
          => module' = module]_vars

\* The flag was set by the property and cleared by an a2dp module of the
\* document; the primary module after it has kept its A2DP device ports and the
\* route into one of them.
C18_Witness ==
    /\ pc = "fixup"
    /\ property
    /\ ~ forceDisableA2dpOffload
    /\ cursor >= 1
    /\ modules[Len(modules)].name = Str("a2dp")
    /\ HasTagName(modules[Len(modules)].mixPorts, A2dpOutput)
    /\ Len(modules[Len(modules)].mixPorts) = 1
    /\ isPrimaryModule
    /\ \A n \in Range(a2dpOuts) : HasTagName(module.devicePorts, n)
    /\ mixRoutesInto(module, BtA2dpOut) # {}


\* The module has, for each of the three A2DP device names, the device port
\* the quirk adds and a mix route from "a2dp output" into it.
a2dpContained(ctx) ==
    \A n \in Range(a2dpOuts) :
        /\ \E i \in tagged(ctx.devicePorts, {n}) :
               /\ ctx.devicePorts[i].profiles = <<pcm16Stereo>>
               /\ ctx.devicePorts[i].address = Str("lhdc_a2dp")
        /\ \E i \in mixRoutesInto(ctx, n) :
               ctx.routes[i].sources = <<<<"mix", A2dpOutput>>>>

\* The loaded module ctx lacks a device port of one of the three A2DP names
\* that its element e declares, or a route into one.
a2dpRemoved(e, ctx) ==
    \E n \in Range(a2dpOuts) :
        \/ /\ declaresNamed("devicePort", "tagName", e, {n})
           /\ ~ HasTagName(ctx.devicePorts, n)
        \/ Cardinality({k \in 1..Len(Declared("route", e)) :
                            getXmlAttribute(Declared("route", e)[k], "sink") = n})
             > Cardinality({k \in 1..Len(ctx.routes) : ctx.routes[k].sink[2] = n})

\* Every module element of the document was loaded and the primary module at
\* position i lost an A2DP device port or route.
removedFromPrimary(i) ==
    /\ Len(config.hwModules) = Len(moduleElements)
    /\ getXmlAttribute(moduleElements[i], "name") = Str("primary")
    /\ a2dpRemoved(moduleElements[i], config.hwModules[i])

a2dpModulesLoaded == {j \in 1..Len(config.hwModules) : config.hwModules[j].name = Str("a2dp")}

\* C19 as stated: after a load with the flag enabled of a document with a
\* primary and an a2dp module, in either order, a device port or route of the
\* three A2DP names removed from the primary module means that the a2dp module
\* has the three added device ports and their routes.
C19_RemovedFromPrimaryAddedToA2dp ==
    pc = "done" /\ status = "OK" /\ property
        /\ a2dpModulesLoaded # {}
        /\ (\E i \in 1..Len(moduleElements) : removedFromPrimary(i))
        => \E j \in a2dpModulesLoaded : a2dpContained(config.hwModules[j])

\* C19 amended: the same when the flag is still set at the end of the load,
\* that is, no a2dp module of the document had a mix port named "a2dp output";
\* then every a2dp module whose element declares no device port and no mix port
\* under one of the three device names has the three added device ports and
\* their routes.
C19_RemovedAndAddedWhileFlagSet ==
    pc = "done" /\ status = "OK" /\ property /\ forceDisableA2dpOffload
        /\ a2dpModulesLoaded # {}
        /\ (\E i \in 1..Len(moduleElements) : removedFromPrimary(i))
        => \A j \in a2dpModulesLoaded :
               \/ declaresNamed("devicePort", "tagName", moduleElements[j], Range(a2dpOuts))
               \/ declaresNamed("mixPort", "name", moduleElements[j], Range(a2dpOuts))
               \/ a2dpContained(config.hwModules[j])

\* The primary module lost its A2DP device ports and the a2dp module, loaded
\* before or after it, got them.
C19_Witness ==
    /\ pc = "done"
    /\ status = "OK"
    /\ property
    /\ forceDisableA2dpOffload
    /\ Len(config.hwModules) = 2
    /\ removedFromPrimary(2)
    /\ config.hwModules[1].name = Str("a2dp")
    /\ a2dpContained(config.hwModules[1])


\* The four conditions of C20 over the mix routes alone: the device port, a mix
\* route not into "Telephony Tx" with the source "BT SCO Headset Mic", a mix
\* route into "Telephony Tx", and no mix route into "BT SCO Headset".
scoMixRouteMissing(ctx) ==
    /\ HasTagName(ctx.devicePorts, BtScoHeadset)
    /\ \E i \in 1..Len(ctx.routes) :
           /\ ctx.routes[i].type = "mix"
           /\ ctx.routes[i].sink[2] # TelephonyTx
           /\ \E k \in 1..Len(ctx.routes[i].sources) :
                  ctx.routes[i].sources[k][2] = BtScoHeadsetMic
    /\ \E i \in routesInto(ctx, TelephonyTx) : ctx.routes[i].type = "mix"
    /\ \A i \in routesInto(ctx, BtScoHeadset) : ctx.routes[i].type # "mix"

\* The step added one route into "BT SCO Headset" at the end of the routes.
scoRouteAppended ==
    /\ Len(module'.routes) = Len(module.routes) + 1
    /\ SubSeq(module'.routes, 1, Len(module.routes)) = module.routes
    /\ module'.routes[Len(module'.routes)].sink[2] = BtScoHeadset

\* C20 as stated: the fixup adds its route exactly when the module has the
\* device port "BT SCO Headset", a route of any type with the source "BT SCO
\* Headset Mic", a route of any type into "Telephony Tx" and no route of any
\* type into "BT SCO Headset".
C20_ScoRouteIffAnyRoutes ==
    [][pc = "fixup" =>
          /\ scoRouteAppended <=> scoRouteMissing(module, {"mix", "mux"})
          /\ ~ scoRouteAppended => module' = module]_vars

\* C20 amended: the fixup adds its route exactly when the module has the device
\* port, a mix route with the source "BT SCO Headset Mic" that does not sink
\* into "Telephony Tx", a mix route into "Telephony Tx" and no mix route into
\* "BT SCO Headset"; routes of another type are not looked at.
C20_ScoRouteIffMixRoutes ==
    [][pc = "fixup" =>
          /\ scoRouteAppended <=> scoMixRouteMissing(module)
          /\ ~ scoRouteAppended => module' = module]_vars

\* The route was added to a module that has a mux route into "BT SCO Headset"
\* beside the two mix routes the fixup looks for.
C20_Witness ==
    /\ pc = "children"
    /\ Len(module.routes) = Len(Declared("route", curModule)) + 1
    /\ \E i \in routesInto(module, BtScoHeadset) : module.routes[i].type = "mux"
    /\ scoMixRouteMissing([module EXCEPT !.routes = SubSeq(@, 1, Len(@) - 1)])
    /\ module.routes[Len(module.routes)].sink[2] = BtScoHeadset


\* The tag names of a port collection, in order.
tagNamesIn(collection) == [i \in 1..Len(collection) |-> collection[i].tagName]

\* The ports of a step of ModuleTraits::deserialize are those before it: the
\* step may have added back-links to them.
samePorts(before, after) ==
    /\ tagNamesIn(after.mixPorts) = tagNamesIn(before.mixPorts)
    /\ tagNamesIn(after.devicePorts) = tagNamesIn(before.devicePorts)

\* The step that parses the mix ports, the device ports or the routes of the
\* module went on to the next step, and touched its own collection only.
assembledInOrder ==
    /\ pc = "mixPorts" /\ pc' = "a2dpMixPort"
          => module.mixPorts = <<>> /\ module'.devicePorts = <<>> /\ module'.routes = <<>>
    /\ pc = "devicePorts" /\ pc' = "a2dpDevicePorts"
          => /\ module.devicePorts = <<>> /\ module'.routes = <<>>
             /\ module'.mixPorts = module.mixPorts
    /\ pc = "routes" /\ pc' = "a2dpRoutes"
          => module.routes = <<>> /\ samePorts(module, module')

\* The sink and the sources of every route of the module after are ports named
\* in names.
resolvedAgainst(after, names) ==
    \A i \in 1..Len(after.routes) :
        \A key \in {after.routes[i].sink} \cup Range(after.routes[i].sources) :
            key[2] \in names

declaredPortNames(e) ==
    Range(namesOf(Declared("mixPort", e), "name"))
        \cup Range(namesOf(Declared("devicePort", e), "tagName"))

\* C21 as stated: mix ports are assembled before device ports and device
\* ports before routes, the steps of the quirks before the routes are parsed
\* change nothing, and the parsed routes have their sink and sources among the
\* ports the element of the module declares.
C21_QuirksAfterDeclaredRoutes ==
    [][/\ assembledInOrder
       /\ pc \in {"a2dpMixPort", "a2dpDevicePorts"} => module' = module
       /\ pc = "routes" /\ pc' = "a2dpRoutes"
             => resolvedAgainst(module', declaredPortNames(curModule))]_vars

\* C21 amended: mix ports are assembled before device ports and device ports
\* before routes; the A2DP quirk adds its mix port between the mix ports and
\* the device ports, and adds or erases its device ports between the device
\* ports and the routes, so that with the flag set the routes of the primary
\* module are parsed without the three A2DP device ports and those of the a2dp
\* module with the added ports; only the routes of the quirks are added or erased
\* after the routes are parsed, and the ports are then left as they are.  The
\* parsed routes have their sink and sources among the ports the module has
\* when they are parsed.
C21_PortQuirksBeforeDeclaredRoutes ==
    [][/\ assembledInOrder
       /\ pc = "a2dpMixPort"
             => /\ module'.devicePorts = <<>> /\ module'.routes = <<>>
                /\ module'.mixPorts \in {module.mixPorts, Append(module.mixPorts, a2dpMixPort)}
                /\ forceDisableA2dpOffload' /\ isA2dpModule
                      => HasTagName(module'.mixPorts, A2dpOutput)
       /\ pc = "a2dpDevicePorts"
             => /\ module'.mixPorts = module.mixPorts /\ module'.routes = <<>>
                /\ forceDisableA2dpOffload /\ isPrimaryModule
                      => tagged(module'.devicePorts, Range(a2dpOuts)) = {}
                /\ forceDisableA2dpOffload /\ isA2dpModule
                      => \A n \in Range(a2dpOuts) : HasTagName(module'.devicePorts, n)
                /\ ~ forceDisableA2dpOffload \/ ~ (isPrimaryModule \/ isA2dpModule)
                      => module' = module
       /\ pc \in {"a2dpRoutes", "fixup"} => samePorts(module, module')
       /\ pc = "routes" /\ pc' = "a2dpRoutes"
             => resolvedAgainst(module', portTags(module))]_vars

\* The routes of an a2dp module were parsed after the quirk added its ports: a
\* route of the document has the added mix port as its source and an added
\* device port as its sink, and the element declares neither.
C21_Witness ==
    /\ pc = "a2dpRoutes"
    /\ forceDisableA2dpOffload
    /\ isA2dpModule
    /\ Len(module.routes) = 1
    /\ module.routes[1].sink = <<"device", BtA2dpOut>>
    /\ module.routes[1].sources = <<<<"mix", A2dpOutput>>>>
    /\ declaredPortNames(curModule) = {}


\* The correction of the mono channel mask fires while a device port of the
\* module element e is parsed.
correctionFiredIn(e) ==
    \E d \in Range(Declared("devicePort", e)) :
        DevicePortTraits_deserialize(
            d, [statics EXCEPT !.fixedEarpieceChannels = FALSE]).env.fixedEarpieceChannels

\* The step that completes the module attached its "Earpiece".
earpieceAttachedNow ==
    config'.availableDevices
        # moduleChildren(curModule.children, 1, module, cursor + 1, config).availableDevices

\* C22: the marker is false whenever the processing of a module begins, and
\* the step that completes a module attaches its "Earpiece" exactly when the
\* correction fired in a device port of that module and the module has a
\* device port "Earpiece".
C22_EarpieceFromOwnModuleOnly ==
    [][/\ pc = "module" /\ cursor < Len(moduleElements) => ~ fixedEarpieceChannels
       /\ pc = "children"
             => (earpieceAttachedNow
                   <=> correctionFiredIn(curModule)
                         /\ HasTagName(module.devicePorts, Earpiece))]_vars

\* The same with the marker as it is when the module completes: the
\* "Earpiece" is attached exactly when the marker is set and the module has
\* the device port, and the marker is clear after the step.
C22_EarpieceFromMarker ==
    [][pc = "children"
          => /\ earpieceAttachedNow
                   <=> fixedEarpieceChannels /\ HasTagName(module.devicePorts, Earpiece)
             /\ ~ fixedEarpieceChannels']_vars

\* A module whose own device port fired the correction got its "Earpiece"
\* attached.
C22_AttachedInOwnModule ==
    /\ pc = "module"
    /\ cursor >= 1
    /\ ~ fixedEarpieceChannels
    /\ correctionFiredIn(moduleElements[cursor])
    /\ \E i \in 1..Len(config.availableDevices) :
           /\ config.availableDevices[i].tagName = Earpiece
           /\ config.availableDevices[i].element = cursor

\* The processing of a module begins with the marker set by a module that was
\* dropped.
C22_MarkerLeftSet ==
    /\ pc = "module"
    /\ cursor < Len(moduleElements)
    /\ fixedEarpieceChannels


\* The route elements of the module with a type and a sink that resolves,
\* none of whose sources resolves.
unsourced(elements) ==
    SelectSeq(elements,
              LAMBDA e : /\ getXmlAttribute(e, "type") # Empty
                         /\ getXmlAttribute(e, "sink") \in portTags(module)
                         /\ resolvedNames(getXmlAttribute(e, "sources"),
                                          portTags(module)) = <<>>)

\* The routes of the module without a source.
sourceless(ctx) == {i \in 1..Len(ctx.routes) : ctx.routes[i].sources = <<>>}

\* The route at position i is in the back-link set of its sink and of no other
\* port.
linkedToSinkOnly(ctx, i) ==
    \A j \in 1..Len(ports(ctx)) :
        ctx.routes[i].id \in ports(ctx)[j].routes
            <=> portKey(ports(ctx)[j]) = ctx.routes[i].sink

\* C23 as stated: every route element with a type and a sink that resolves,
\* none of whose sources resolves, is a route of the module without sources
\* that only its sink links back to, whatever its sources attribute.
C23_UnsourcedRouteAccepted ==
    pc = "a2dpRoutes" =>
        /\ Cardinality(sourceless(module)) = Len(unsourced(offeredRoutes))
        /\ \A i \in sourceless(module) : linkedToSinkOnly(module, i)

\* C23 amended: the same for the route elements whose sources attribute is
\* not empty; a route element without the attribute, or with an empty one, is
\* not accepted.
C23_UnsourcedRouteAcceptedUnlessEmpty ==
    pc = "a2dpRoutes" =>
        /\ Cardinality(sourceless(module)) = Len(unsourced(retainedRoutes))
        /\ \A i \in sourceless(module) : linkedToSinkOnly(module, i)
        /\ Len(module.routes) = Len(retainedRoutes)
        /\ \A i \in 1..Len(module.routes) :
               /\ i \in sourceless(module)
                     <=> resolvedNames(getXmlAttribute(retainedRoutes[i], "sources"),
                                       portTags(module)) = <<>>
               /\ module.routes[i].sink[2] = getXmlAttribute(retainedRoutes[i], "sink")

\* A route none of whose source names resolves was accepted without sources,
\* beside a route with sources.
C23_Witness ==
    /\ pc = "a2dpRoutes"
    /\ Len(module.routes) = 2
    /\ sourceless(module) = {2}
    /\ getXmlAttribute(retainedRoutes[2], "sources") # Empty
    /\ linkedToSinkOnly(module, 2)
    /\ ~ linkedToSinkOnly(module, 1)


\* The routes the module had before the step are its first routes after it,
\* with their type, sink and sources, and at most one route follows them.
routesKept ==
    /\ Len(module'.routes) \in {Len(module.routes), Len(module.routes) + 1}
    /\ SubSeq(module'.routes, 1, Len(module.routes)) = module.routes

\* C24 as stated: the step of the BT SCO fixup leaves every route of the
\* module as it is, adds at most one route, and leaves the mix ports and the
\* device ports of the module unchanged.
C24_FixupLeavesRoutesAndPorts ==
    [][pc = "fixup" =>
          /\ routesKept
          /\ module'.mixPorts = module.mixPorts
          /\ module'.devicePorts = module.devicePorts]_vars

\* The collection after is the collection before, the id given to the
\* back-link sets of the ports whose key is in keys.
linkedInto(before, after, keys, id) ==
    /\ Len(after) = Len(before)
    /\ \A i \in 1..Len(before) :
           after[i] = IF portKey(before[i]) \in keys
                      THEN [before[i] EXCEPT !.routes = @ \cup {id}]
                      ELSE before[i]

\* C24 amended: the step leaves every route of the module as it is and adds at
\* most one route; it adds and removes no port and changes no attribute of a
\* port, but the sink and the sources of the added route get that route in
\* their back-link sets.  Without an added route the module is unchanged.
C24_FixupLeavesRoutesLinksPorts ==
    [][pc = "fixup" =>
          /\ routesKept
          /\ Len(module'.routes) = Len(module.routes) => module' = module
          /\ Len(module'.routes) = Len(module.routes) + 1 =>
                LET added == module'.routes[Len(module'.routes)]
                    keys == {added.sink} \cup Range(added.sources)
                IN /\ added.id \notin routeIds(module)
                   /\ linkedInto(module.mixPorts, module'.mixPorts, keys, added.id)
                   /\ linkedInto(module.devicePorts, module'.devicePorts, keys, added.id)]_vars

\* The fixup added its route after the two routes of the document, and the
\* sink and a source of the added route link back to it.
C24_Witness ==
    /\ pc = "children"
    /\ Len(module.routes) = 3
    /\ Len(retainedRoutes) = 2
    /\ \A i \in 1..2 : module.routes[i].sink[2] = getXmlAttribute(retainedRoutes[i], "sink")
    /\ module.routes[3].sink = <<"device", BtScoHeadset>>
    /\ module.routes[3].sources # <<>>
    /\ \A key \in {module.routes[3].sink} \cup Range(module.routes[3].sources) :
           module.routes[3].id \in portAt(module, key).routes

=============================================================================
